---- MODULE Spec2Model ----
(***************************************************************************)
(* The Intcode virtual machine of rust/2019/src/bin/9/main.rs              *)
(* (run_program and get_parameter_modes), as a state machine.              *)
(*                                                                         *)
(* Memory is the Vec<isize> `program`; cell i of the Vec is program[i+1]   *)
(* of the TLA+ sequence.  One action is one iteration of the `loop` of     *)
(* run_program, for one class of opcode.  The variable `prev` is a history *)
(* variable: the machine state at the start of the last iteration; `steps`  *)
(* counts the iterations; `image` and `given` keep the program and the     *)
(* input stream the run was started with.                                  *)
(***************************************************************************)
EXTENDS Integers, Sequences, FiniteSets, TLC

VARIABLES program, instruction_pointer, relative_base, input, output,
          status, err, prev, steps, image, given,
          harness, amps, chan, sent, cur, last,
          disjoint_set, called

\* the state of one run of run_program of day 9
vm_vars == <<program, instruction_pointer, relative_base, input, output,
            status, err, prev, steps, image, given>>

\* the state of a harness of day 7, its instances and their channels
pipe_vars == <<harness, amps, chan, sent, cur, last>>

\* a DisjointSet of 2018 day 25, and the last call made on it
ds_vars == <<disjoint_set, called>>

vars == <<vm_vars, pipe_vars, ds_vars>>

(***************************************************************************)
(* Bounds of the model.                                                    *)
(***************************************************************************)
\* parameters of the generated instructions range over -1..MaxVal, and 9
\* (an address beyond the end of every generated program)
MaxVal == 2

\* iterations of the loop followed in one run (a program may loop forever)
MaxSteps == 5

\* the harnesses of day 7 are called with 0..MaxAmps instances
MaxAmps == 2

\* the amplifier controllers modelled make 1..MaxRounds round trips
MaxRounds == 2

\* permutations of one call of the looped harness that are followed (each
\* may end in more than one way, by the order its tasks ran in)
MaxPermutations == 5

\* the values given to a DisjointSet as elements are 1..MaxElems
MaxElems == 3

\* calls made on one DisjointSet
MaxOps == 5

\* add_subset and the writes through get_mut are among the first MaxWrites
\* calls made on one DisjointSet
MaxWrites == 3

\* usize and isize are words of the same width, 64 bits on the targets
\* the repository is built for; the model gives them WordBits bits
WordBits == 8

\* the part-2 search of day 2 draws noun and verb from 0..=99; the model
\* draws them from 0..MaxNoun
MaxNoun == 3

Vals == ((-1)..MaxVal) \cup {9}

\* the harness (the future of the #[tokio::main] function) as a task
Main == -1

\* no task holds the thread: the runtime picks one that is ready
Idle == -2

(***************************************************************************)
(* Helpers on sequences and memory.                                        *)
(***************************************************************************)
\* program[i] of the Vec (0-indexed)
Cell(mem, i) == mem[i + 1]

\* program.get(i): is index i inside the Vec
InBounds(mem, i) == i >= 0 /\ i < Len(mem)

\* program.resize_with(idx + 1, || 0) under the guard idx >= program.len()
\* Resize growing the Vec by one cell too many
ResizeMut(mem, idx) ==
    IF idx >= Len(mem)
    THEN mem \o [k \in 1..(idx + 2 - Len(mem)) |-> 0]
    ELSE mem

Resize(mem, idx) ==
    IF idx >= Len(mem)
    THEN mem \o [k \in 1..(idx + 1 - Len(mem)) |-> 0]
    ELSE mem

\* program[idx] = value
Store(mem, idx, value) == [mem EXCEPT ![idx + 1] = value]

(***************************************************************************)
(* get_parameter_modes: opcode.digits().rev().skip(2), each digit          *)
(* converted by ParameterModes::try_from.                                  *)
(***************************************************************************)
RECURSIVE Digits(_)
\* the decimal digits of n >= 0, most significant first
Digits(n) == IF n < 10 THEN <<n>> ELSE Append(Digits(n \div 10), n % 10)

Rev(s) == [i \in 1..Len(s) |-> s[Len(s) + 1 - i]]

Skip(s, n) == IF Len(s) <= n THEN <<>> ELSE SubSeq(s, n + 1, Len(s))

\* impl TryFrom<u8> for ParameterModes
ModeOfDigit(d) ==
    CASE d = 0 -> "Position"
      [] d = 1 -> "Immediate"
      [] d = 2 -> "Relative"
      [] OTHER -> "Unknown"

\* get_parameter_modes skipping one digit of the opcode instead of two
get_parameter_modes_Mut(opcode) ==
    LET ds == Skip(Rev(Digits(opcode)), 1)
        ms == [i \in 1..Len(ds) |-> ModeOfDigit(ds[i])]
    IN  [ok |-> \A i \in 1..Len(ms) : ms[i] # "Unknown", modes |-> ms]

get_parameter_modes(opcode) ==
    LET ds == Skip(Rev(Digits(opcode)), 2)
        ms == [i \in 1..Len(ds) |-> ModeOfDigit(ds[i])]
    IN  [ok |-> \A i \in 1..Len(ms) : ms[i] # "Unknown", modes |-> ms]

\* parameter_mode_of losing the mode of the last digit given
parameter_mode_of_Mut(modes, param) ==
    IF param + 1 < Len(modes) THEN modes[param + 1] ELSE "Position"

\* the closure parameter_mode_of
parameter_mode_of(modes, param) ==
    IF param + 1 <= Len(modes) THEN modes[param + 1] ELSE "Position"

(***************************************************************************)
(* The closure get_param(param, need_write).  The result is the error (or  *)
(* "None"), the memory after the call (it may have grown) and the value.   *)
(***************************************************************************)
PRes(e, mem, v) == [err |-> e, mem |-> mem, val |-> v]

\* RawIdx subtracting the offset from the relative base
RawIdxMut(mode, rb, param_value) ==
    IF mode = "Relative" THEN rb - param_value ELSE param_value

\* raw_idx: relative_base + param_value in Relative mode, else param_value
RawIdx(mode, rb, param_value) ==
    IF mode = "Relative" THEN rb + param_value ELSE param_value

get_param(mem, ip, rb, modes, param, need_write) ==
    IF ~InBounds(mem, ip + param + 1)
    THEN PRes("ParameterNotFound", mem, 0)
    ELSE LET param_value == Cell(mem, ip + param + 1)
             param_mode == parameter_mode_of(modes, param)
         IN  IF need_write /\ param_mode \notin {"Position", "Relative"}
             THEN PRes("InvalidWriteMode", mem, 0)
             ELSE IF param_mode = "Immediate"
             THEN PRes("None", mem, param_value)
             ELSE LET raw_idx == RawIdx(param_mode, rb, param_value)
                  IN  IF raw_idx < 0
                      THEN PRes("NegativeAddress", mem, 0)
                      ELSE LET grown == Resize(mem, raw_idx)
                           IN  PRes("None", grown,
                                    IF need_write THEN raw_idx
                                    ELSE Cell(grown, raw_idx))

(***************************************************************************)
(* One iteration of the loop of run_program, as a function of the machine  *)
(* state.                                                                  *)
(***************************************************************************)
St(mem, ip, rb, inp, out, st, e) ==
    [program |-> mem, instruction_pointer |-> ip, relative_base |-> rb,
     input |-> inp, output |-> out, status |-> st, err |-> e]

\* an Err returned by `?` or bail!: the run ends, nothing else changes
Fail(mem, ip, rb, inp, out, e) == St(mem, ip, rb, inp, out, "Failed", e)

\* ArithResult with opcode 7 as less-than-or-equal
ArithResultMut(op, x, y) ==
    CASE op = 1 -> x + y
      [] op = 2 -> x * y
      [] op = 7 -> IF x <= y THEN 1 ELSE 0
      [] op = 8 -> IF x = y THEN 1 ELSE 0

\* the inner match of the 1 | 2 | 7 | 8 arm
ArithResult(op, x, y) ==
    CASE op = 1 -> x + y
      [] op = 2 -> x * y
      [] op = 7 -> IF x < y THEN 1 ELSE 0
      [] op = 8 -> IF x = y THEN 1 ELSE 0

\* the 1 | 2 | 7 | 8 arm
ArithStep(mem, ip, rb, inp, out, op, modes) ==
    LET r0 == get_param(mem, ip, rb, modes, 0, FALSE)
        r1 == get_param(r0.mem, ip, rb, modes, 1, FALSE)
        r2 == get_param(r1.mem, ip, rb, modes, 2, TRUE)
    IN  IF r0.err # "None" THEN Fail(r0.mem, ip, rb, inp, out, r0.err)
        ELSE IF r1.err # "None" THEN Fail(r1.mem, ip, rb, inp, out, r1.err)
        ELSE IF r2.err # "None" THEN Fail(r2.mem, ip, rb, inp, out, r2.err)
        ELSE St(Store(r2.mem, r2.val, ArithResult(op, r0.val, r1.val)),
                ip + 4, rb, inp, out, "Running", "None")

\* ShouldJump with the two conditions exchanged
ShouldJumpMut(op, checked_value) ==
    IF op = 5 THEN checked_value = 0 ELSE checked_value # 0

\* should_jump of the 5 | 6 arm
ShouldJump(op, checked_value) ==
    IF op = 5 THEN checked_value # 0 ELSE checked_value = 0

\* the 5 | 6 arm; the jump point is converted to usize before should_jump
\* is looked at
JumpStep(mem, ip, rb, inp, out, op, modes) ==
    LET r0 == get_param(mem, ip, rb, modes, 0, FALSE)
        r1 == get_param(r0.mem, ip, rb, modes, 1, FALSE)
    IN  IF r0.err # "None" THEN Fail(r0.mem, ip, rb, inp, out, r0.err)
        ELSE IF r1.err # "None" THEN Fail(r1.mem, ip, rb, inp, out, r1.err)
        ELSE IF r1.val < 0
        THEN Fail(r1.mem, ip, rb, inp, out, "NegativeJumpPoint")
        ELSE St(r1.mem,
                IF ShouldJump(op, r0.val) THEN r1.val ELSE ip + 3,
                rb, inp, out, "Running", "None")

\* InputStep storing the last value of the stream instead of the next
InputStepMut(mem, ip, rb, inp, out, modes) ==
    IF inp = <<>>
    THEN Fail(mem, ip, rb, inp, out, "MissingInput")
    ELSE LET r0 == get_param(mem, ip, rb, modes, 0, TRUE)
         IN  IF r0.err # "None"
             THEN Fail(r0.mem, ip, rb, Tail(inp), out, r0.err)
             ELSE St(Store(r0.mem, r0.val, inp[Len(inp)]), ip + 2, rb,
                     Tail(inp), out, "Running", "None")

\* opcode 3: the input is taken from the stream before the destination is
\* resolved
InputStep(mem, ip, rb, inp, out, modes) ==
    IF inp = <<>>
    THEN Fail(mem, ip, rb, inp, out, "MissingInput")
    ELSE LET r0 == get_param(mem, ip, rb, modes, 0, TRUE)
         IN  IF r0.err # "None"
             THEN Fail(r0.mem, ip, rb, Tail(inp), out, r0.err)
             ELSE St(Store(r0.mem, r0.val, Head(inp)), ip + 2, rb,
                     Tail(inp), out, "Running", "None")

\* opcode 4: output_fn(get_param(0, false)?)
OutputStep(mem, ip, rb, inp, out, modes) ==
    LET r0 == get_param(mem, ip, rb, modes, 0, FALSE)
    IN  IF r0.err # "None" THEN Fail(r0.mem, ip, rb, inp, out, r0.err)
        ELSE St(r0.mem, ip + 2, rb, inp, Append(out, r0.val),
                "Running", "None")

\* RelBaseStep assigning the operand instead of adding it
RelBaseStepMut(mem, ip, rb, inp, out, modes) ==
    LET r0 == get_param(mem, ip, rb, modes, 0, FALSE)
    IN  IF r0.err # "None" THEN Fail(r0.mem, ip, rb, inp, out, r0.err)
        ELSE St(r0.mem, ip + 2, r0.val, inp, out, "Running", "None")

\* opcode 9: relative_base += get_param(0, false)?
RelBaseStep(mem, ip, rb, inp, out, modes) ==
    LET r0 == get_param(mem, ip, rb, modes, 0, FALSE)
    IN  IF r0.err # "None" THEN Fail(r0.mem, ip, rb, inp, out, r0.err)
        ELSE St(r0.mem, ip + 2, rb + r0.val, inp, out, "Running", "None")

\* OpOf keeping one digit of the opcode
OpOfMut(opcode) == opcode % 10

\* opcode % 100, for the usize opcode
OpOf(opcode) == opcode % 100

KnownOps == {1, 2, 3, 4, 5, 6, 7, 8, 9, 99}

\* Exec clearing the halt instruction's cell as it halts
ExecMut(mem, ip, rb, inp, out) ==
    IF ~InBounds(mem, ip)
    THEN St(mem, ip, rb, inp, out, "Panicked", "IndexOutOfBounds")
    ELSE IF Cell(mem, ip) < 0
    THEN Fail(mem, ip, rb, inp, out, "NegativeOpcode")
    ELSE LET opcode == Cell(mem, ip)
             pm == get_parameter_modes(opcode)
             op == OpOf(opcode)
         IN  IF ~pm.ok
             THEN Fail(mem, ip, rb, inp, out, "UnknownParameterMode")
             ELSE CASE op \in {1, 2, 7, 8} ->
                         ArithStep(mem, ip, rb, inp, out, op, pm.modes)
                    [] op \in {5, 6} ->
                         JumpStep(mem, ip, rb, inp, out, op, pm.modes)
                    [] op = 3 -> InputStep(mem, ip, rb, inp, out, pm.modes)
                    [] op = 4 -> OutputStep(mem, ip, rb, inp, out, pm.modes)
                    [] op = 9 -> RelBaseStep(mem, ip, rb, inp, out, pm.modes)
                    [] op = 99 ->
                         St(Store(mem, ip, 0), ip, rb, inp, out, "Halted",
                            "None")
                    [] OTHER -> Fail(mem, ip, rb, inp, out, "UnknownOpcode")

\* the body of `loop`
Exec(mem, ip, rb, inp, out) ==
    IF ~InBounds(mem, ip)
    THEN St(mem, ip, rb, inp, out, "Panicked", "IndexOutOfBounds")
    ELSE IF Cell(mem, ip) < 0
    THEN Fail(mem, ip, rb, inp, out, "NegativeOpcode")
    ELSE LET opcode == Cell(mem, ip)
             pm == get_parameter_modes(opcode)
             op == OpOf(opcode)
         IN  IF ~pm.ok
             THEN Fail(mem, ip, rb, inp, out, "UnknownParameterMode")
             ELSE CASE op \in {1, 2, 7, 8} ->
                         ArithStep(mem, ip, rb, inp, out, op, pm.modes)
                    [] op \in {5, 6} ->
                         JumpStep(mem, ip, rb, inp, out, op, pm.modes)
                    [] op = 3 -> InputStep(mem, ip, rb, inp, out, pm.modes)
                    [] op = 4 -> OutputStep(mem, ip, rb, inp, out, pm.modes)
                    [] op = 9 -> RelBaseStep(mem, ip, rb, inp, out, pm.modes)
                    [] op = 99 -> St(mem, ip, rb, inp, out, "Halted", "None")
                    [] OTHER -> Fail(mem, ip, rb, inp, out, "UnknownOpcode")

(***************************************************************************)
(* The programs and inputs the runs start from.                            *)
(***************************************************************************)
\* an instruction cell: opcode op with mode digits m0, m1, m2
Instr(op, m0, m1, m2) == op + 100 * m0 + 1000 * m1 + 10000 * m2

Modes3 == {0, 1, 2}

\* the cells before and after the generated instruction: it runs at
\* relative base 0, or after 109,r has set the relative base to r
Shapes == { <<<<>>, <<>>>>, <<<<>>, <<99>>>>, <<<<109, -1>>, <<99>>>>,
            <<<<109, 2>>, <<99>>>> }

ArithPrograms ==
    { sh[1] \o <<Instr(op, m0, m1, m2), a, b, c>> \o sh[2] :
        sh \in Shapes, op \in {1, 2, 7, 8},
        m0 \in Modes3, m1 \in Modes3, m2 \in Modes3,
        a \in Vals, b \in Vals, c \in Vals }

JumpPrograms ==
    { sh[1] \o <<Instr(op, m0, m1, 0), a, b>> \o sh[2] \o tl :
        sh \in Shapes, op \in {5, 6}, m0 \in Modes3, m1 \in Modes3,
        a \in Vals, b \in Vals, tl \in {<<>>, <<99, 99>>} }

IoPrograms ==
    { sh[1] \o <<Instr(op, m0, 0, 0), a>> \o sh[2] \o tl :
        sh \in Shapes, op \in {3, 4, 9}, m0 \in Modes3, a \in Vals,
        tl \in {<<>>, <<3, 0, 4, 0, 99>>, <<204, 0, 99>>} }

\* cells that do not decode to an instruction, and mode digits on halt
OddCells == {0, 10, 98, 100, 398, 20098, 30099, 20099, 301, 1301, -1, -5, -98}

OddPrograms ==
    { sh[1] \o <<c>> \o sh[2] : sh \in Shapes, c \in OddCells }

\* the programs of the examples
ExamplePrograms ==
    { <<1, 0, 0, 0, 99>>, <<3, 0, 4, 0, 99>>, <<109, 1, 204, -1, 99>>,
      <<1101, 100, -1, 4, 0>>, <<99>>, <<1105, 0, -1, 99>>,
      <<1002, 4, 3, 4, 33>> }

Programs ==
    ArithPrograms \cup JumpPrograms \cup IoPrograms \cup OddPrograms
        \cup ExamplePrograms

\* the input streams: empty, one value, two values
Inputs == {<<>>, <<42, 7>>} \cup { <<v>> : v \in Vals }

NoPrev == [program |-> <<>>, instruction_pointer |-> -1, relative_base |-> 0,
           input |-> <<>>, output |-> <<>>]

Init ==
    /\ program \in Programs
    /\ input \in (IF program \in IoPrograms \cup ExamplePrograms
                  THEN Inputs ELSE {<<>>})
    /\ instruction_pointer = 0
    /\ relative_base = 0
    /\ output = <<>>
    /\ status = "Running"
    /\ err = "None"
    /\ prev = NoPrev
    /\ steps = 0
    /\ image = program
    /\ given = input
    /\ harness = <<>>
    /\ amps = <<>>
    /\ chan = <<>>
    /\ sent = <<>>
    /\ cur = Idle
    /\ last = <<>>
    /\ disjoint_set = <<>>
    /\ called = <<>>

(***************************************************************************)
(* Actions: one iteration of the loop, by what the cell at the instruction *)
(* pointer decodes to.                                                     *)
(***************************************************************************)
Apply(s) ==
    /\ steps < MaxSteps
    /\ steps' = steps + 1
    /\ UNCHANGED <<image, given>>
    /\ UNCHANGED <<pipe_vars, ds_vars>>
    /\ prev' = [program |-> program,
                instruction_pointer |-> instruction_pointer,
                relative_base |-> relative_base,
                input |-> input, output |-> output]
    /\ program' = s.program
    /\ instruction_pointer' = s.instruction_pointer
    /\ relative_base' = s.relative_base
    /\ input' = s.input
    /\ output' = s.output
    /\ status' = s.status
    /\ err' = s.err

Now == Exec(program, instruction_pointer, relative_base, input, output)

\* the cell at the instruction pointer decodes: it is there, it is not
\* negative and its mode digits are modes
Decodes ==
    /\ InBounds(program, instruction_pointer)
    /\ Cell(program, instruction_pointer) >= 0
    /\ get_parameter_modes(Cell(program, instruction_pointer)).ok

CurOp == OpOf(Cell(program, instruction_pointer))

FetchPanic ==
    /\ status = "Running"
    /\ ~InBounds(program, instruction_pointer)
    /\ Apply(Now)

DecodeError ==
    /\ status = "Running"
    /\ InBounds(program, instruction_pointer)
    /\ ~Decodes
    /\ Apply(Now)

Arith ==
    /\ status = "Running" /\ Decodes /\ CurOp \in {1, 2, 7, 8}
    /\ Apply(Now)

Jump ==
    /\ status = "Running" /\ Decodes /\ CurOp \in {5, 6}
    /\ Apply(Now)

ReadInput ==
    /\ status = "Running" /\ Decodes /\ CurOp = 3
    /\ Apply(Now)

WriteOutput ==
    /\ status = "Running" /\ Decodes /\ CurOp = 4
    /\ Apply(Now)

AdjustRelativeBase ==
    /\ status = "Running" /\ Decodes /\ CurOp = 9
    /\ Apply(Now)

Halt ==
    /\ status = "Running" /\ Decodes /\ CurOp = 99
    /\ Apply(Now)

UnknownOpcode ==
    /\ status = "Running" /\ Decodes /\ CurOp \notin KnownOps
    /\ Apply(Now)

Next ==
    \/ FetchPanic
    \/ DecodeError
    \/ Arith
    \/ Jump
    \/ ReadInput
    \/ WriteOutput
    \/ AdjustRelativeBase
    \/ Halt
    \/ UnknownOpcode

Spec == Init /\ [][Next]_vars

(***************************************************************************)
(* What the claims are stated with: the last iteration's start state, and  *)
(* the instruction's operands read off the cells arithmetically.           *)
(***************************************************************************)
\* an iteration has run
Stepped == steps > 0

PMem == prev.program
PIp == prev.instruction_pointer
PRb == prev.relative_base

\* the instruction cell of the last iteration
PInstr == Cell(PMem, PIp)

\* the last iteration decoded an instruction with opcode in ops
Ran(ops) ==
    /\ Stepped
    /\ InBounds(PMem, PIp)
    /\ PInstr >= 0
    /\ (PInstr % 100) \in ops

\* ... and completed without an error
RanOk(ops) == Ran(ops) /\ status = "Running"

Pow10(k) == CASE k = 0 -> 1 [] k = 1 -> 10 [] k = 2 -> 100 [] k = 3 -> 1000
              [] k = 4 -> 10000 [] k = 5 -> 100000 [] k = 6 -> 1000000

\* the decimal digit of c at position k + 2 from the least significant
DigitMode(c, k) == (c \div Pow10(k + 2)) % 10

\* memory read as an unbounded array of cells that are 0 unless stored to
ZRead(mem, i) == IF InBounds(mem, i) THEN Cell(mem, i) ELSE 0

\* the raw parameter k of the last instruction (a parameter cell may lie in
\* cells that an earlier operand of the instruction made the memory grow by)
PParam(k) == ZRead(PMem, PIp + k + 1)

\* the address parameter k of the last instruction names
PAddr(k) ==
    IF DigitMode(PInstr, k) = 2 THEN PRb + PParam(k) ELSE PParam(k)

\* the value of operand k of the last instruction
PVal(k) ==
    IF DigitMode(PInstr, k) = 1 THEN PParam(k) ELSE ZRead(PMem, PAddr(k))

\* every cell of the old memory, but those of `except`, is as it was
OldCellsKept(except) ==
    /\ Len(program) >= Len(PMem)
    /\ \A i \in 0..(Len(PMem) - 1) :
          i \notin except => Cell(program, i) = Cell(PMem, i)

\* every cell added by the last iteration, but those of `except`, is 0
NewCellsZero(except) ==
    \A i \in Len(PMem)..(Len(program) - 1) :
        i \notin except => Cell(program, i) = 0

Max(a, b) == IF a >= b THEN a ELSE b

(***************************************************************************)
(* C1: a step of opcode 1, 2, 7 or 8 whose operands resolve stores a+b,    *)
(* a*b, (a<b) or (a==b) at dst, changes no other cell that existed, and    *)
(* advances the instruction pointer by 4; program 1,0,0,0,99 halts with    *)
(* memory 2,0,0,0,99.                                                      *)
(***************************************************************************)
C1_Expected(op, a, b) ==
    CASE op = 1 -> a + b
      [] op = 2 -> a * b
      [] op = 7 -> IF a < b THEN 1 ELSE 0
      [] op = 8 -> IF a = b THEN 1 ELSE 0

C1_ArithStep ==
    /\ RanOk({1, 2, 7, 8}) =>
          /\ Cell(program, PAddr(2))
                = C1_Expected(PInstr % 100, PVal(0), PVal(1))
          /\ OldCellsKept({PAddr(2)})
          /\ instruction_pointer = PIp + 4
    /\ image = <<1, 0, 0, 0, 99>> =>
          /\ status \in {"Running", "Halted"}
          /\ steps >= 2 => status = "Halted" /\ program = <<2, 0, 0, 0, 99>>

C1_Witness ==
    /\ image = <<1, 0, 0, 0, 99>>
    /\ Ran({99})
    /\ status = "Halted"
    /\ program = <<2, 0, 0, 0, 99>>

(***************************************************************************)
(* C2: program 3,0,4,0,99 started with an input stream whose first value   *)
(* is v emits exactly v, takes exactly one value and halts; every opcode-3 *)
(* step takes the next unread value of the stream, every opcode-4 step     *)
(* appends exactly one output, both advance the instruction pointer by 2,  *)
(* and no other step touches the stream or the output.                     *)
(***************************************************************************)
C2_InputOutput ==
    /\ (image = <<3, 0, 4, 0, 99>> /\ given # <<>>) =>
          /\ status \in {"Running", "Halted"}
          /\ steps >= 3 =>
                /\ status = "Halted"
                /\ output = <<Head(given)>>
                /\ input = Tail(given)
    /\ (Ran({3}) /\ get_parameter_modes(PInstr).ok /\ prev.input # <<>>) =>
          /\ input = Tail(prev.input)
          /\ status = "Running" =>
                /\ Cell(program, PAddr(0)) = Head(prev.input)
                /\ instruction_pointer = PIp + 2
    /\ RanOk({4}) =>
          /\ output = Append(prev.output, PVal(0))
          /\ instruction_pointer = PIp + 2
    /\ (Stepped /\ ~RanOk({4})) => output = prev.output
    /\ (Stepped /\ ~Ran({3})) => input = prev.input

C2_Witness ==
    /\ image = <<3, 0, 4, 0, 99>>
    /\ given = <<42, 7>>
    /\ status = "Halted"
    /\ output = <<42>>
    /\ input = <<7>>

(***************************************************************************)
(* C3: program 109,1,204,-1,99 run with an empty input stream halts after  *)
(* emitting exactly one output.  As claimed, the output is 1               *)
(* (C3_OutputIsSecondCell); in the code it is 109, the cell at index       *)
(* relative_base + (-1) = 0 (C3_OutputIsFirstCell).                        *)
(***************************************************************************)
C3_OutputIsSecondCell ==
    (image = <<109, 1, 204, -1, 99>> /\ given = <<>> /\ status = "Halted")
        => output = <<1>>

C3_OutputIsFirstCell ==
    (image = <<109, 1, 204, -1, 99>> /\ given = <<>>) =>
        /\ status \in {"Running", "Halted"}
        /\ steps >= 3 => status = "Halted" /\ output = <<109>>

C3_Witness ==
    /\ image = <<109, 1, 204, -1, 99>>
    /\ given = <<>>
    /\ status = "Halted"
    /\ output = <<109>>
    /\ relative_base = 1

(***************************************************************************)
(* C4: the opcode is c mod 100 and the mode of parameter k is the decimal  *)
(* digit of c at position k+2 (0, Position, when c has no such digit); a   *)
(* Position operand is memory[param], an Immediate operand is param and a  *)
(* Relative operand is memory[relative_base + param].  Every completed     *)
(* step acts on the operands so read, and program 1101,100,-1,4,0 halts    *)
(* with memory[4] = 99 and no output.                                      *)
(***************************************************************************)
C4_Taken(op, cond) == IF op = 5 THEN cond # 0 ELSE cond = 0

C4_Decode ==
    /\ RanOk({1, 2, 7, 8}) =>
          Cell(program, PAddr(2)) = C1_Expected(PInstr % 100, PVal(0), PVal(1))
    /\ RanOk({5, 6}) =>
          instruction_pointer =
              IF C4_Taken(PInstr % 100, PVal(0)) THEN PVal(1) ELSE PIp + 3
    /\ RanOk({4}) => output = Append(prev.output, PVal(0))
    /\ RanOk({9}) => relative_base = PRb + PVal(0)
    /\ (Stepped /\ status = "Halted") => Ran({99})
    /\ (Stepped /\ output # prev.output) => Ran({4})
    /\ (Stepped /\ input # prev.input) => Ran({3})
    /\ (Stepped /\ relative_base # PRb) => Ran({9})
    /\ (Stepped /\ ~OldCellsKept({})) => Ran({1, 2, 3, 7, 8})
    /\ image = <<1101, 100, -1, 4, 0>> =>
          /\ status \in {"Running", "Halted"}
          /\ output = <<>>
          /\ steps >= 2 => status = "Halted" /\ Cell(program, 4) = 99

C4_Witness ==
    /\ image = <<1101, 100, -1, 4, 0>>
    /\ status = "Halted"
    /\ program = <<1101, 100, -1, 4, 99>>
    /\ output = <<>>

(***************************************************************************)
(* C5: when an operand read or a destination write of a completed step     *)
(* resolves to an index i at or beyond the end of memory, memory is        *)
(* extended to exactly i+1 cells (for the largest such i of the step), the *)
(* new cells are 0 (but the one stored to), the cells that existed are     *)
(* unchanged (but the one stored to), and such a read yields 0.            *)
(***************************************************************************)
\* the parameters the last instruction reads, and the one it stores to
C5_ReadParams ==
    IF (PInstr % 100) \in {1, 2, 5, 6, 7, 8} THEN {0, 1}
    ELSE IF (PInstr % 100) \in {4, 9} THEN {0} ELSE {}

C5_WriteParams ==
    IF (PInstr % 100) \in {1, 2, 7, 8} THEN {2}
    ELSE IF (PInstr % 100) = 3 THEN {0} ELSE {}

\* the indices the last instruction resolved through Position or Relative
C5_Indices ==
    { PAddr(k) : k \in { j \in C5_ReadParams : DigitMode(PInstr, j) # 1 } }
        \cup { PAddr(k) : k \in C5_WriteParams }

C5_Written == { PAddr(k) : k \in C5_WriteParams }

RECURSIVE SetMax(_)
SetMax(S) ==
    IF S = {} THEN -1
    ELSE LET x == CHOOSE y \in S : TRUE
         IN  Max(x, SetMax(S \ {x}))

C5_Growth ==
    /\ RanOk({1, 2, 3, 4, 5, 6, 7, 8, 9}) =>
          /\ Len(program) = Max(Len(PMem), SetMax(C5_Indices) + 1)
          /\ OldCellsKept(C5_Written)
          /\ NewCellsZero(C5_Written)
    /\ (RanOk({4}) /\ DigitMode(PInstr, 0) # 1 /\ PAddr(0) >= Len(PMem)) =>
          /\ output = Append(prev.output, 0)
          /\ Len(program) = PAddr(0) + 1
          /\ OldCellsKept({})
          /\ NewCellsZero({})
    /\ (Stepped /\ status # "Running") =>
          OldCellsKept({}) /\ NewCellsZero({})

\* an output step has read an index beyond the end of memory
C5_Witness ==
    /\ RanOk({4})
    /\ DigitMode(PInstr, 0) = 2
    /\ PRb # 0
    /\ PAddr(0) >= Len(PMem)
    /\ Len(program) = PAddr(0) + 1
    /\ output = <<0>>

(***************************************************************************)
(* C6: an add or mul instruction followed by halt stores the same value at *)
(* the same destination index whether each of a, b and dst is addressed in *)
(* Position mode with address p or in Relative mode with offset            *)
(* p - relative_base.  The last iteration ran the instruction with all     *)
(* three parameters in Position mode; C6_Variant is the same memory with   *)
(* the instruction re-encoded with mode digits m (0 or 2 each).  As        *)
(* claimed (C6_AnyOperands) the statement covers every operand address; it *)
(* holds (C6_OperandsOutsideInstruction) when neither a nor b addresses    *)
(* one of the instruction's own four cells, whose contents are what the    *)
(* two encodings differ in.                                                *)
(***************************************************************************)
C6_ModeSets == [0..2 -> {0, 2}]

\* the cells of the instruction of the last iteration
C6_Own == PIp..(PIp + 3)

C6_Variant(m) ==
    [i \in 1..Len(PMem) |->
        IF i - 1 = PIp
        THEN Instr(PInstr, m[0], m[1], m[2])
        ELSE IF (i - 1) \in C6_Own /\ m[i - 2 - PIp] = 2
        THEN PMem[i] - PRb
        ELSE PMem[i]]

\* the last iteration completed an all-Position add or mul with halt behind
C6_Pre ==
    /\ RanOk({1, 2})
    /\ PInstr \in {1, 2}
    /\ InBounds(PMem, PIp + 4)
    /\ Cell(PMem, PIp + 4) = 99

\* the re-encoded instruction stores the same value at the same index
C6_Same(m) ==
    LET v == C6_Variant(m)
        r == Exec(v, PIp, PRb, prev.input, prev.output)
        dst == PParam(2)
    IN  /\ r.status = "Running"
        /\ r.instruction_pointer = instruction_pointer
        /\ Len(r.program) = Len(program)
        /\ Cell(r.program, dst) = Cell(program, dst)
        /\ \A i \in 0..(Len(r.program) - 1) :
              i # dst => Cell(r.program, i) = ZRead(v, i)

C6_AnyOperands == C6_Pre => \A m \in C6_ModeSets : C6_Same(m)

C6_OperandsOutsideInstruction ==
    (C6_Pre /\ PParam(0) \notin C6_Own /\ PParam(1) \notin C6_Own)
        => \A m \in C6_ModeSets : C6_Same(m)

\* such an instruction has run at a relative base other than 0
C6_Witness ==
    /\ C6_Pre
    /\ PRb # 0
    /\ PParam(0) \notin C6_Own /\ PParam(1) \notin C6_Own
    /\ PParam(0) # PParam(1)
    /\ \A m \in C6_ModeSets : C6_Same(m)

(***************************************************************************)
(* C7: a completed step of opcode 5 with cond # 0, or of opcode 6 with     *)
(* cond = 0, and a target >= 0 sets the instruction pointer to the target  *)
(* and changes no cell of memory (cells the reads made memory grow by are  *)
(* 0), nor relative_base, the input stream or the output.                  *)
(***************************************************************************)
C7_JumpTaken ==
    (RanOk({5, 6}) /\ C4_Taken(PInstr % 100, PVal(0)) /\ PVal(1) >= 0) =>
        /\ instruction_pointer = PVal(1)
        /\ OldCellsKept({})
        /\ NewCellsZero({})
        /\ relative_base = PRb
        /\ input = prev.input
        /\ output = prev.output

C7_Witness ==
    /\ RanOk({5})
    /\ PVal(0) # 0
    /\ PVal(1) >= 0
    /\ PVal(1) # PIp + 3
    /\ instruction_pointer = PVal(1)

(***************************************************************************)
(* C8: a step of opcode 5 with cond = 0, or of opcode 6 with cond # 0,     *)
(* whose two operands resolve completes and advances the instruction       *)
(* pointer by 3, whatever the value of the target operand, a negative one  *)
(* included.                                                               *)
(***************************************************************************)
\* every mode digit of the instruction cell is a mode
C8_ModesValid == \A k \in 0..4 : DigitMode(PInstr, k) <= 2

\* parameter k of the last instruction has its cell and names no negative
\* index
C8_Resolves(k) ==
    /\ InBounds(PMem, PIp + k + 1)
    /\ (DigitMode(PInstr, k) = 1 \/ PAddr(k) >= 0)

C8_FallThrough ==
    (/\ Ran({5, 6})
     /\ C8_ModesValid
     /\ C8_Resolves(0)
     /\ C8_Resolves(1)
     /\ ~C4_Taken(PInstr % 100, PVal(0))) =>
        /\ status = "Running"
        /\ instruction_pointer = PIp + 3

(***************************************************************************)
(* C9: relative_base is 0 when a run starts; a completed step of opcode 9  *)
(* makes it relative_base + a and advances the instruction pointer by 2;   *)
(* every other step leaves it unchanged.                                   *)
(***************************************************************************)
C9_RelativeBase ==
    /\ steps = 0 => relative_base = 0
    /\ RanOk({9}) =>
          /\ relative_base = PRb + PVal(0)
          /\ instruction_pointer = PIp + 2
    /\ (Stepped /\ ~RanOk({9})) => relative_base = PRb

\* opcode 9 has run at a relative base other than 0 and changed it
C9_Witness ==
    /\ RanOk({9})
    /\ PRb # 0
    /\ PVal(0) # 0
    /\ relative_base = PRb + PVal(0)

(***************************************************************************)
(* C10: when the cell at the instruction pointer holds v with v mod 100    *)
(* not in {1,...,9,99}, the run fails, and that step changes no memory     *)
(* cell, emits no output and takes no input.  As claimed                   *)
(* (C10_AlwaysUnknownOpcode) the error is always UnknownOpcode; in the     *)
(* code (C10_FailsUnchanged) it is UnknownOpcode only when v >= 0 and      *)
(* every digit of v above the lowest two is 0, 1 or 2: a negative v is     *)
(* reported as a negative opcode, and a greater digit as an unknown        *)
(* parameter mode.                                                         *)
(***************************************************************************)
\* v mod 100, with the sign of v for a negative v
C10_Rem(v) == IF v >= 0 THEN v % 100 ELSE 0 - ((0 - v) % 100)

\* the last iteration fetched a cell that is no instruction
C10_Pre ==
    /\ Stepped
    /\ InBounds(PMem, PIp)
    /\ (PInstr % 100) \notin KnownOps
    /\ C10_Rem(PInstr) \notin KnownOps

C10_Unchanged ==
    /\ status = "Failed"
    /\ program = PMem
    /\ output = prev.output
    /\ input = prev.input
    /\ instruction_pointer = PIp

C11_ArithPre ==
    /\ Ran({1, 2, 7, 8})
    /\ C8_ModesValid
    /\ C8_Resolves(0)
    /\ C8_Resolves(1)
    /\ InBounds(PMem, PIp + 3)
    /\ DigitMode(PInstr, 2) = 1

\* the last instruction is an input one whose destination is Immediate
C11_InputPre ==
    /\ Ran({3})
    /\ C8_ModesValid
    /\ InBounds(PMem, PIp + 1)
    /\ DigitMode(PInstr, 0) = 1

C11_Refused ==
    /\ status = "Failed"
    /\ err = "InvalidWriteMode"
    /\ OldCellsKept({})
    /\ NewCellsZero({})
    /\ output = prev.output

\* a Position or Relative destination is not refused for its mode
C11_Accepted ==
    /\ (Ran({1, 2, 7, 8}) /\ DigitMode(PInstr, 2) \in {0, 2}) =>
          err # "InvalidWriteMode"
    /\ (Ran({3}) /\ DigitMode(PInstr, 0) \in {0, 2}) =>
          err # "InvalidWriteMode"
    /\ Ran({4, 5, 6, 9, 99}) => err # "InvalidWriteMode"

C11_ImmediateDestination ==
    /\ (C11_ArithPre \/ C11_InputPre) => C11_Refused
    /\ C11_Accepted

(***************************************************************************)
(* C12: a step one of whose parameters is in Position mode with a negative *)
(* value, or in Relative mode with relative_base + value negative, be it   *)
(* an operand read or a write destination, fails with NegativeAddress and  *)
(* stores nothing.  An opcode 3 step on an exhausted input stream fails    *)
(* with MissingInput before its destination is resolved.                   *)
(***************************************************************************)
\* the parameters of an instruction of opcode op
C12_Params(op) ==
    CASE op \in {1, 2, 7, 8} -> 0..2
      [] op \in {5, 6} -> 0..1
      [] op \in {3, 4, 9} -> {0}
      [] OTHER -> {}

\* parameter k of the last instruction has its cell and names a negative
\* index
C12_Negative(k) ==
    /\ InBounds(PMem, PIp + k + 1)
    /\ DigitMode(PInstr, k) \in {0, 2}
    /\ PAddr(k) < 0

C12_Pre ==
    /\ Ran({1, 2, 3, 4, 5, 6, 7, 8, 9})
    /\ C8_ModesValid
    /\ \E k \in C12_Params(PInstr % 100) : C12_Negative(k)

C12_Rejected ==
    /\ status = "Failed"
    /\ err = "NegativeAddress"
    /\ OldCellsKept({})
    /\ output = prev.output
    /\ instruction_pointer = PIp

C12_AnyNegativeParameter == C12_Pre => C12_Rejected

(***************************************************************************)
(* The amplifier pipelines of rust/2019/src/bin/7/main.rs.                 *)
(*                                                                         *)
(* run_program of that file is the machine of day 5: two parameter modes,  *)
(* no relative base, a memory that does not grow, and an input that is an  *)
(* async stream.  find_max_thruster_val_looped runs num_amps copies of it  *)
(* as tasks of a single-threaded runtime, joined in a ring by unbounded    *)
(* channels; find_max_thruster_val runs them one after the other.          *)
(*                                                                         *)
(* amps[i] is instance i (0-based, as in the source); chan[c] is the queue *)
(* of the channel instance c receives from, chan[num_amps] the one the     *)
(* harness receives from (main_rx).  `cur` is the task that holds the one  *)
(* thread of the runtime: a task keeps it from one await that is pending   *)
(* to the next, so tasks interleave at those points only.  `last` and      *)
(* `sent` are history variables: the state a step started from, and every  *)
(* value each channel has accepted.                                        *)
(***************************************************************************)
\* impl TryFrom<u8> for ParameterModes of day 7: two modes
ModeOfDigit7(d) ==
    CASE d = 0 -> "Position"
      [] d = 1 -> "Immediate"
      [] OTHER -> "Unknown"

get_parameter_modes7(opcode) ==
    LET ds == Skip(Rev(Digits(opcode)), 2)
        ms == [i \in 1..Len(ds) |-> ModeOfDigit7(ds[i])]
    IN  [ok |-> \A i \in 1..Len(ms) : ms[i] # "Unknown", modes |-> ms]

\* the closure get_param of day 7: a write destination must be in Position
\* mode; a read index must be inside the memory, a write index is returned
\* unchecked
get_param7(mem, ip, modes, param, need_write) ==
    IF ~InBounds(mem, ip + param + 1)
    THEN PRes("ParameterNotFound", mem, 0)
    ELSE LET param_value == Cell(mem, ip + param + 1)
             param_mode == parameter_mode_of(modes, param)
         IN  IF need_write /\ param_mode # "Position"
             THEN PRes("InvalidWriteMode", mem, 0)
             ELSE IF param_mode = "Immediate"
             THEN PRes("None", mem, param_value)
             ELSE IF param_value < 0
             THEN PRes("NegativeAddress", mem, 0)
             ELSE IF need_write
             THEN PRes("None", mem, param_value)
             ELSE IF param_value < Len(mem)
             THEN PRes("None", mem, Cell(mem, param_value))
             ELSE PRes("InvalidIndex", mem, 0)

\* what input.next().await finds: a value, the end of the stream, or
\* nothing yet
SrcValue(v) == [kind |-> "Value", val |-> v]
SrcClosed == [kind |-> "Closed", val |-> 0]
SrcEmpty == [kind |-> "Empty", val |-> 0]

\* the outcome of one iteration: the machine, whether the value of the
\* source was taken, and the values handed to output_fn
R7(mem, ip, st, e, took, emit) ==
    [program |-> mem, instruction_pointer |-> ip, status |-> st, err |-> e,
     took |-> took, emit |-> emit]

Fail7(mem, ip, e, took) == R7(mem, ip, "Failed", e, took, <<>>)

\* program[idx] = ... with idx outside the Vec
Panic7(mem, ip, took) ==
    R7(mem, ip, "Panicked", "IndexOutOfBounds", took, <<>>)

\* the 1 | 2 | 7 | 8 arm
ArithStep7(mem, ip, op, modes) ==
    LET r0 == get_param7(mem, ip, modes, 0, FALSE)
        r1 == get_param7(mem, ip, modes, 1, FALSE)
        r2 == get_param7(mem, ip, modes, 2, TRUE)
    IN  IF r0.err # "None" THEN Fail7(mem, ip, r0.err, FALSE)
        ELSE IF r1.err # "None" THEN Fail7(mem, ip, r1.err, FALSE)
        ELSE IF r2.err # "None" THEN Fail7(mem, ip, r2.err, FALSE)
        ELSE IF ~InBounds(mem, r2.val) THEN Panic7(mem, ip, FALSE)
        ELSE R7(Store(mem, r2.val, ArithResult(op, r0.val, r1.val)),
                ip + 4, "Running", "None", FALSE, <<>>)

\* the 5 | 6 arm
JumpStep7(mem, ip, op, modes) ==
    LET r0 == get_param7(mem, ip, modes, 0, FALSE)
        r1 == get_param7(mem, ip, modes, 1, FALSE)
    IN  IF r0.err # "None" THEN Fail7(mem, ip, r0.err, FALSE)
        ELSE IF r1.err # "None" THEN Fail7(mem, ip, r1.err, FALSE)
        ELSE IF r1.val < 0 THEN Fail7(mem, ip, "NegativeJumpPoint", FALSE)
        ELSE R7(mem, IF ShouldJump(op, r0.val) THEN r1.val ELSE ip + 3,
                "Running", "None", FALSE, <<>>)

\* InputStep7 failing on a stream that is empty but not closed
InputStep7_NoWait(mem, ip, modes, src) ==
    IF src.kind # "Value"
    THEN Fail7(mem, ip, "MissingInput", FALSE)
    ELSE LET r0 == get_param7(mem, ip, modes, 0, TRUE)
         IN  IF r0.err # "None" THEN Fail7(mem, ip, r0.err, TRUE)
             ELSE IF ~InBounds(mem, r0.val) THEN Panic7(mem, ip, TRUE)
             ELSE R7(Store(mem, r0.val, src.val), ip + 2, "Running", "None",
                     TRUE, <<>>)

\* opcode 3: input.next().await, then the destination, then the store
InputStep7(mem, ip, modes, src) ==
    IF src.kind = "Empty"
    THEN R7(mem, ip, "AwaitingInput", "None", FALSE, <<>>)
    ELSE IF src.kind = "Closed"
    THEN Fail7(mem, ip, "MissingInput", FALSE)
    ELSE LET r0 == get_param7(mem, ip, modes, 0, TRUE)
         IN  IF r0.err # "None" THEN Fail7(mem, ip, r0.err, TRUE)
             ELSE IF ~InBounds(mem, r0.val) THEN Panic7(mem, ip, TRUE)
             ELSE R7(Store(mem, r0.val, src.val), ip + 2, "Running", "None",
                     TRUE, <<>>)

\* opcode 4: output_fn(get_param(0, false)?)
OutputStep7(mem, ip, modes) ==
    LET r0 == get_param7(mem, ip, modes, 0, FALSE)
    IN  IF r0.err # "None" THEN Fail7(mem, ip, r0.err, FALSE)
        ELSE R7(mem, ip + 2, "Running", "None", FALSE, <<r0.val>>)

KnownOps7 == {1, 2, 3, 4, 5, 6, 7, 8, 99}

\* one iteration of the loop of run_program of day 7
Exec7(mem, ip, src) ==
    IF ~InBounds(mem, ip) THEN Panic7(mem, ip, FALSE)
    ELSE LET opcode == Cell(mem, ip)
         IN  IF opcode < 0 THEN Fail7(mem, ip, "NegativeOpcode", FALSE)
             ELSE LET pm == get_parameter_modes7(opcode)
                      op == OpOf(opcode)
                  IN  IF ~pm.ok
                      THEN Fail7(mem, ip, "UnknownParameterMode", FALSE)
                      ELSE CASE op \in {1, 2, 7, 8} ->
                                    ArithStep7(mem, ip, op, pm.modes)
                             [] op \in {5, 6} ->
                                    JumpStep7(mem, ip, op, pm.modes)
                             [] op = 3 -> InputStep7(mem, ip, pm.modes, src)
                             [] op = 4 -> OutputStep7(mem, ip, pm.modes)
                             [] op = 99 ->
                                    R7(mem, ip, "Halted", "None", FALSE, <<>>)
                             [] OTHER -> Fail7(mem, ip, "UnknownOpcode", FALSE)

(***************************************************************************)
(* The instances and the channels between them.                            *)
(***************************************************************************)
\* the run has returned Ok, returned Err, or panicked
Finished(a) == a.status \in {"Halted", "Failed", "Panicked"}

Looped == harness.call = "looped"

\* NewAmp starting from a memory that is not the program image
NewAmpMut(prog, phase) ==
    [program |-> <<99>>, instruction_pointer |-> 0, status |-> "Running",
     err |-> "None", phase |-> <<phase>>, disconnected_tx |-> FALSE,
     output |-> <<>>, taken |-> <<>>, resumed |-> FALSE]

\* a task as task::spawn (or block_on) receives it: a clone of the program,
\* its phase setting in front of its input stream.  `output` is every value
\* given to output_fn (the Vec `output` of the sequential harness), `taken`
\* every value taken from the channel, `resumed` whether the task was woken
\* from its await and has not run since
NewAmp(prog, phase) ==
    [program |-> prog, instruction_pointer |-> 0, status |-> "Running",
     err |-> "None", phase |-> <<phase>>, disconnected_tx |-> FALSE,
     output |-> <<>>, taken |-> <<>>, resumed |-> FALSE]

\* the Sender of channel c is not dropped: main_tx lives as long as the
\* permutation is worked on, output_tx of instance c - 1 as long as its
\* task; the stream of a block_on run ends after its two values
SenderAlive(c) == Looped /\ (c = 0 \/ ~Finished(amps[c - 1]))

\* the Receiver of channel c is not dropped
ReceiverAlive(c) == c = harness.num_amps \/ ~Finished(amps[c])

\* Source yielding the newest value of the queue instead of the oldest
SourceMut(i) ==
    IF amps[i].phase # <<>> THEN SrcValue(amps[i].phase[1])
    ELSE IF chan[i] # <<>> THEN SrcValue(chan[i][Len(chan[i])])
    ELSE IF SenderAlive(i) THEN SrcEmpty
    ELSE SrcClosed

\* what the stream once(phase).chain(input_rx) of instance i yields next
Source(i) ==
    IF amps[i].phase # <<>> THEN SrcValue(amps[i].phase[1])
    ELSE IF chan[i] # <<>> THEN SrcValue(Head(chan[i]))
    ELSE IF SenderAlive(i) THEN SrcEmpty
    ELSE SrcClosed

\* the next iteration of instance i
Nx(i) == Exec7(amps[i].program, amps[i].instruction_pointer, Source(i))

\* the opcode instance i is at (0: none)
OpAt(i) ==
    LET a == amps[i]
    IN  IF InBounds(a.program, a.instruction_pointer)
           /\ Cell(a.program, a.instruction_pointer) >= 0
           /\ get_parameter_modes7(Cell(a.program, a.instruction_pointer)).ok
        THEN OpOf(Cell(a.program, a.instruction_pointer))
        ELSE 0

\* instance i may run: it is not suspended, and the thread is its own or
\* free
Ready(i) ==
    /\ harness.pc \notin {"Returned", "Panicked"}
    /\ amps[i].status = "Running"
    /\ (cur = i \/ (cur = Idle /\ Looped))

\* the state a step starts from
Snapshot(who) ==
    [who |-> who, amps |-> amps, chan |-> chan, harness |-> harness,
     src |-> IF who \in DOMAIN amps THEN Source(who) ELSE SrcEmpty]

NoLast ==
    [who |-> Idle, amps |-> <<>>, chan |-> <<>>, harness |-> <<>>,
     src |-> SrcEmpty]

\* the closure given as output_fn, on a bounded channel of capacity 1: the
\* value is dropped when the queue is full
DeliveredMut(i, r) ==
    /\ Looped
    /\ r.emit # <<>>
    /\ ~amps[i].disconnected_tx
    /\ ReceiverAlive(i + 1)
    /\ chan[i + 1] = <<>>

\* the closure given as output_fn: output_tx.send(output) unless the
\* receiver was found dropped before
Delivered(i, r) ==
    /\ Looped
    /\ r.emit # <<>>
    /\ ~amps[i].disconnected_tx
    /\ ReceiverAlive(i + 1)

\* AmpApply ending the run with an error when the send of an output fails
AmpApplyMut(i, r) ==
    LET a == amps[i]
        took_phase == r.took /\ a.phase # <<>>
        took_chan == r.took /\ a.phase = <<>>
        delivered == Delivered(i, r)
    IN  \E a2 \in {[a EXCEPT
                      !.program = r.program,
                      !.instruction_pointer = r.instruction_pointer,
                      !.status = IF Looped /\ r.emit # <<>> /\ ~delivered
                                  THEN "Failed" ELSE r.status,
                      !.err = IF Looped /\ r.emit # <<>> /\ ~delivered
                               THEN "ChannelDisconnected" ELSE r.err,
                      !.phase = IF took_phase THEN <<>> ELSE @,
                      !.disconnected_tx =
                          @ \/ (Looped /\ r.emit # <<>> /\ ~delivered),
                      !.output = @ \o r.emit,
                      !.taken = IF took_chan THEN Append(@, Source(i).val)
                                ELSE @,
                      !.resumed = FALSE]} :
        \E wakes \in {delivered \/ (Looped /\ Finished(a2))} :
            /\ amps' = [j \in DOMAIN amps |->
                          IF j = i THEN a2
                          ELSE IF j = i + 1 /\ wakes
                                  /\ amps[j].status = "AwaitingInput"
                          THEN [amps[j] EXCEPT !.status = "Running",
                                               !.resumed = TRUE]
                          ELSE amps[j]]
            /\ chan' = [c \in DOMAIN chan |->
                          IF c = i /\ took_chan THEN Tail(chan[c])
                          ELSE IF c = i + 1 /\ delivered
                          THEN Append(chan[c], r.emit[1])
                          ELSE chan[c]]
            /\ sent' = [c \in DOMAIN sent |->
                          IF c = i + 1 /\ delivered
                          THEN Append(sent[c], r.emit[1])
                          ELSE sent[c]]
            /\ harness' = IF i + 1 = harness.num_amps /\ wakes
                             /\ harness.pc = "AwaitingRecv"
                          THEN [harness EXCEPT !.pc = "Recv"]
                          ELSE harness
            /\ cur' = IF a2.status = "Running" THEN i
                      ELSE IF Looped THEN Idle ELSE Main
            /\ last' = Snapshot(i)
            /\ UNCHANGED <<vm_vars, ds_vars>>

\* one iteration of instance i with outcome r, and what it does to the
\* channels: the value taken, the value sent, the receiver woken by a send
\* or by the drop of the Sender when the task ends
AmpApply(i, r) ==
    LET a == amps[i]
        took_phase == r.took /\ a.phase # <<>>
        took_chan == r.took /\ a.phase = <<>>
        delivered == Delivered(i, r)
    IN  \E a2 \in {[a EXCEPT
                      !.program = r.program,
                      !.instruction_pointer = r.instruction_pointer,
                      !.status = r.status,
                      !.err = r.err,
                      !.phase = IF took_phase THEN <<>> ELSE @,
                      !.disconnected_tx =
                          @ \/ (Looped /\ r.emit # <<>> /\ ~delivered),
                      !.output = @ \o r.emit,
                      !.taken = IF took_chan THEN Append(@, Source(i).val)
                                ELSE @,
                      !.resumed = FALSE]} :
        \E wakes \in {delivered \/ (Looped /\ Finished(a2))} :
            /\ amps' = [j \in DOMAIN amps |->
                          IF j = i THEN a2
                          ELSE IF j = i + 1 /\ wakes
                                  /\ amps[j].status = "AwaitingInput"
                          THEN [amps[j] EXCEPT !.status = "Running",
                                               !.resumed = TRUE]
                          ELSE amps[j]]
            /\ chan' = [c \in DOMAIN chan |->
                          IF c = i /\ took_chan THEN Tail(chan[c])
                          ELSE IF c = i + 1 /\ delivered
                          THEN Append(chan[c], r.emit[1])
                          ELSE chan[c]]
            /\ sent' = [c \in DOMAIN sent |->
                          IF c = i + 1 /\ delivered
                          THEN Append(sent[c], r.emit[1])
                          ELSE sent[c]]
            /\ harness' = IF i + 1 = harness.num_amps /\ wakes
                             /\ harness.pc = "AwaitingRecv"
                          THEN [harness EXCEPT !.pc = "Recv"]
                          ELSE harness
            /\ cur' = IF r.status = "Running" THEN i
                      ELSE IF Looped THEN Idle ELSE Main
            /\ last' = Snapshot(i)
            /\ UNCHANGED <<vm_vars, ds_vars>>

AmpFault ==
    \E i \in DOMAIN amps :
        /\ Ready(i)
        /\ OpAt(i) \notin KnownOps7
        /\ \E r \in {Nx(i)} : AmpApply(i, r)

AmpArith ==
    \E i \in DOMAIN amps :
        /\ Ready(i)
        /\ OpAt(i) \in {1, 2, 7, 8}
        /\ \E r \in {Nx(i)} : AmpApply(i, r)

AmpJump ==
    \E i \in DOMAIN amps :
        /\ Ready(i)
        /\ OpAt(i) \in {5, 6}
        /\ \E r \in {Nx(i)} : AmpApply(i, r)

\* input.next().await is Ready(Some(value))
AmpReadInput ==
    \E i \in DOMAIN amps :
        /\ Ready(i)
        /\ OpAt(i) = 3
        /\ Source(i).kind = "Value"
        /\ \E r \in {Nx(i)} : AmpApply(i, r)

\* input.next().await is Pending: the task yields the thread
AmpAwaitInput ==
    \E i \in DOMAIN amps :
        /\ Ready(i)
        /\ OpAt(i) = 3
        /\ Source(i).kind = "Empty"
        /\ \E r \in {Nx(i)} : AmpApply(i, r)

\* input.next().await is Ready(None)
AmpMissingInput ==
    \E i \in DOMAIN amps :
        /\ Ready(i)
        /\ OpAt(i) = 3
        /\ Source(i).kind = "Closed"
        /\ \E r \in {Nx(i)} : AmpApply(i, r)

AmpWriteOutput ==
    \E i \in DOMAIN amps :
        /\ Ready(i)
        /\ OpAt(i) = 4
        /\ \E r \in {Nx(i)} : AmpApply(i, r)

AmpHalt ==
    \E i \in DOMAIN amps :
        /\ Ready(i)
        /\ OpAt(i) = 99
        /\ \E r \in {Nx(i)} : AmpApply(i, r)

(***************************************************************************)
(* The harnesses.                                                          *)
(***************************************************************************)
\* the phase settings find_max_thruster_val_looped permutes
LoopedPhases == 5..9

\* the phase settings find_max_thruster_val permutes
ChainPhases == 0..4

SetMin(S) == CHOOSE x \in S : \A y \in S : x <= y

Prepend(x, ps) == [j \in 1..Len(ps) |-> <<x>> \o ps[j]]

RECURSIVE PermutationsOf(_, _), PermutationsFrom(_, _, _)
\* the k-permutations of S whose first element is in T, in the order
\* Itertools::permutations yields them
PermutationsFrom(S, k, T) ==
    IF T = {} THEN <<>>
    ELSE LET x == SetMin(T)
         IN  Prepend(x, PermutationsOf(S \ {x}, k - 1))
                 \o PermutationsFrom(S, k, T \ {x})

\* (range).permutations(k)
PermutationsOf(S, k) ==
    IF k = 0 THEN << <<>> >> ELSE PermutationsFrom(S, k, S)

\* Iterator::max_by_key(|&(val, _)| val): the last of the greatest elements
MaxByKey(outs) ==
    LET best == CHOOSE j \in 1..Len(outs) :
                    /\ \A k \in 1..Len(outs) : outs[k].val <= outs[j].val
                    /\ \A k \in (j + 1)..Len(outs) : outs[k].val < outs[j].val
    IN  outs[best]

\* the tasks of the permutation left that have not ended
Unfinished == Cardinality({i \in DOMAIN amps : ~Finished(amps[i])})

\* ensure!(num_amps != 0, ...)
EnsureAmps ==
    /\ harness.pc = "Call"
    /\ cur = Main
    /\ harness' = IF harness.num_amps = 0
                  THEN [harness EXCEPT !.pc = "Returned",
                                       !.err = "NoAmplifiers"]
                  ELSE [harness EXCEPT !.pc = "Start"]
    /\ cur' = IF harness.num_amps = 0 THEN Idle ELSE Main
    /\ last' = Snapshot(Main)
    /\ UNCHANGED <<amps, chan, sent>>
    /\ UNCHANGED <<vm_vars, ds_vars>>

\* StartLooped giving the phase settings to the instances in reverse order
StartLoopedMut ==
    /\ harness.pc = "Start"
    /\ Looped
    /\ cur = Main
    /\ harness.permutations # <<>>
    /\ harness.started < MaxPermutations
    /\ LET ps == Head(harness.permutations)
           N == harness.num_amps
       IN  /\ harness' = [harness EXCEPT !.pc = "Recv",
                                         !.started = @ + 1,
                                         !.received = <<>>,
                                         !.permutations = Tail(@),
                                         !.phase_settings = ps,
                                         !.orphans = @ + Unfinished]
           /\ amps' = [i \in 0..(N - 1) |->
                          NewAmp(harness.program, ps[N - i])]
           /\ chan' = [c \in 0..N |-> IF c = 0 THEN <<0>> ELSE <<>>]
           /\ sent' = [c \in 0..N |-> IF c = 0 THEN <<0>> ELSE <<>>]
    /\ cur' = Main
    /\ last' = Snapshot(Main)
    /\ UNCHANGED <<vm_vars, ds_vars>>

\* the body of the `for phase_settings` loop of the looped harness up to
\* its first await: the channels, the seed 0, the tasks
StartLooped ==
    /\ harness.pc = "Start"
    /\ Looped
    /\ cur = Main
    /\ harness.permutations # <<>>
    /\ harness.started < MaxPermutations
    /\ LET ps == Head(harness.permutations)
           N == harness.num_amps
       IN  /\ harness' = [harness EXCEPT !.pc = "Recv",
                                         !.started = @ + 1,
                                         !.received = <<>>,
                                         !.permutations = Tail(@),
                                         !.phase_settings = ps,
                                         !.orphans = @ + Unfinished]
           /\ amps' = [i \in 0..(N - 1) |->
                          NewAmp(harness.program, ps[i + 1])]
           /\ chan' = [c \in 0..N |-> IF c = 0 THEN <<0>> ELSE <<>>]
           /\ sent' = [c \in 0..N |-> IF c = 0 THEN <<0>> ELSE <<>>]
    /\ cur' = Main
    /\ last' = Snapshot(Main)
    /\ UNCHANGED <<vm_vars, ds_vars>>

\* main_rx.recv_async().await
Recv ==
    /\ harness.pc = "Recv"
    /\ cur \in {Main, Idle}
    /\ LET N == harness.num_amps
       IN  IF chan[N] # <<>>
           THEN /\ harness' = [harness EXCEPT
                                  !.pc = "Forward",
                                  !.thruster_val = Head(chan[N]),
                                  !.received = Append(@, Head(chan[N]))]
                /\ chan' = [chan EXCEPT ![N] = Tail(@)]
                /\ cur' = Main
           ELSE IF Finished(amps[N - 1])
           THEN /\ harness' = [harness EXCEPT !.pc = "Start"]
                /\ chan' = chan
                /\ cur' = Main
           ELSE /\ harness' = [harness EXCEPT !.pc = "AwaitingRecv"]
                /\ chan' = chan
                /\ cur' = Idle
    /\ last' = Snapshot(Main)
    /\ UNCHANGED <<amps, sent>>
    /\ UNCHANGED <<vm_vars, ds_vars>>

\* Forward on a channel whose send does not wake the waiting receiver
ForwardMut ==
    /\ harness.pc = "Forward"
    /\ cur = Main
    /\ IF Finished(amps[0])
       THEN /\ harness' = [harness EXCEPT
                  !.pc = "Start",
                  !.thruster_outputs =
                      Append(@, [val |-> harness.thruster_val,
                                 phase_settings |-> harness.phase_settings])]
            /\ UNCHANGED <<amps, chan, sent>>
       ELSE /\ harness' = [harness EXCEPT !.pc = "Recv"]
            /\ chan' = [chan EXCEPT ![0] = Append(@, harness.thruster_val)]
            /\ sent' = [sent EXCEPT ![0] = Append(@, harness.thruster_val)]
            /\ UNCHANGED amps
    /\ cur' = Main
    /\ last' = Snapshot(Main)
    /\ UNCHANGED <<vm_vars, ds_vars>>

\* main_tx.send(thruster_val): an error (the Receiver of instance 0 is
\* dropped) records the value and leaves the loop
Forward ==
    /\ harness.pc = "Forward"
    /\ cur = Main
    /\ IF Finished(amps[0])
       THEN /\ harness' = [harness EXCEPT
                  !.pc = "Start",
                  !.thruster_outputs =
                      Append(@, [val |-> harness.thruster_val,
                                 phase_settings |-> harness.phase_settings])]
            /\ UNCHANGED <<amps, chan, sent>>
       ELSE /\ harness' = [harness EXCEPT !.pc = "Recv"]
            /\ chan' = [chan EXCEPT ![0] = Append(@, harness.thruster_val)]
            /\ sent' = [sent EXCEPT ![0] = Append(@, harness.thruster_val)]
            /\ amps' = [amps EXCEPT ![0] =
                          IF @.status = "AwaitingInput"
                          THEN [@ EXCEPT !.status = "Running",
                                         !.resumed = TRUE]
                          ELSE @]
    /\ cur' = Main
    /\ last' = Snapshot(Main)
    /\ UNCHANGED <<vm_vars, ds_vars>>

\* the start of the try_fold of the sequential harness for the next
\* permutation: instance 0 is run by block_on on [phase, 0]
StartChain ==
    /\ harness.pc = "Start"
    /\ ~Looped
    /\ cur = Main
    /\ harness.permutations # <<>>
    /\ LET ps == Head(harness.permutations)
           N == harness.num_amps
       IN  /\ harness' =
                 IF N = 0
                 THEN [harness EXCEPT
                          !.permutations = Tail(@),
                          !.phase_settings = ps,
                          !.thruster_outputs =
                              Append(@, [val |-> 0, phase_settings |-> ps])]
                 ELSE [harness EXCEPT !.pc = "BlockOn",
                                      !.permutations = Tail(@),
                                      !.phase_settings = ps,
                                      !.i = 0]
           /\ amps' = [i \in 0..(N - 1) |->
                          NewAmp(harness.program, ps[i + 1])]
           /\ chan' = [c \in 0..N |-> IF c = 0 THEN <<0>> ELSE <<>>]
           /\ sent' = [c \in 0..N |-> IF c = 0 THEN <<0>> ELSE <<>>]
           /\ cur' = IF N = 0 THEN Main ELSE 0
    /\ last' = Snapshot(Main)
    /\ UNCHANGED <<vm_vars, ds_vars>>

\* Collect handing on the first output of an instance instead of the last
CollectMut ==
    /\ harness.pc = "BlockOn"
    /\ cur = Main
    /\ LET N == harness.num_amps
           a == amps[harness.i]
           v == a.output[1]
       IN  IF a.status = "Panicked"
           THEN /\ harness' = [harness EXCEPT !.pc = "Panicked",
                                             !.err = a.err]
                /\ cur' = Idle
                /\ UNCHANGED <<chan, sent>>
           ELSE IF a.status = "Failed"
           THEN /\ harness' = [harness EXCEPT !.pc = "Returned",
                                             !.err = a.err]
                /\ cur' = Idle
                /\ UNCHANGED <<chan, sent>>
           ELSE IF a.output = <<>>
           THEN /\ harness' = [harness EXCEPT !.pc = "Returned",
                                             !.err = "NoOutput"]
                /\ cur' = Idle
                /\ UNCHANGED <<chan, sent>>
           ELSE IF harness.i + 1 < N
           THEN /\ harness' = [harness EXCEPT !.i = @ + 1]
                /\ chan' = [chan EXCEPT ![harness.i + 1] = <<v>>]
                /\ sent' = [sent EXCEPT ![harness.i + 1] = <<v>>]
                /\ cur' = harness.i + 1
           ELSE /\ harness' = [harness EXCEPT
                      !.pc = "Start",
                      !.thruster_val = v,
                      !.thruster_outputs =
                          Append(@, [val |-> v,
                                     phase_settings |->
                                         harness.phase_settings])]
                /\ cur' = Main
                /\ UNCHANGED <<chan, sent>>
    /\ last' = Snapshot(Main)
    /\ UNCHANGED amps
    /\ UNCHANGED <<vm_vars, ds_vars>>

\* block_on has returned for instance harness.i: `?` on its error, the
\* last output or the error that there is none, then the next instance on
\* [phase, prev_output] or the push of the thruster value
Collect ==
    /\ harness.pc = "BlockOn"
    /\ cur = Main
    /\ LET N == harness.num_amps
           a == amps[harness.i]
           v == a.output[Len(a.output)]
       IN  IF a.status = "Panicked"
           THEN /\ harness' = [harness EXCEPT !.pc = "Panicked",
                                             !.err = a.err]
                /\ cur' = Idle
                /\ UNCHANGED <<chan, sent>>
           ELSE IF a.status = "Failed"
           THEN /\ harness' = [harness EXCEPT !.pc = "Returned",
                                             !.err = a.err]
                /\ cur' = Idle
                /\ UNCHANGED <<chan, sent>>
           ELSE IF a.output = <<>>
           THEN /\ harness' = [harness EXCEPT !.pc = "Returned",
                                             !.err = "NoOutput"]
                /\ cur' = Idle
                /\ UNCHANGED <<chan, sent>>
           ELSE IF harness.i + 1 < N
           THEN /\ harness' = [harness EXCEPT !.i = @ + 1]
                /\ chan' = [chan EXCEPT ![harness.i + 1] = <<v>>]
                /\ sent' = [sent EXCEPT ![harness.i + 1] = <<v>>]
                /\ cur' = harness.i + 1
           ELSE /\ harness' = [harness EXCEPT
                      !.pc = "Start",
                      !.thruster_val = v,
                      !.thruster_outputs =
                          Append(@, [val |-> v,
                                     phase_settings |->
                                         harness.phase_settings])]
                /\ cur' = Main
                /\ UNCHANGED <<chan, sent>>
    /\ last' = Snapshot(Main)
    /\ UNCHANGED amps
    /\ UNCHANGED <<vm_vars, ds_vars>>

\* the loop over the permutations is over: max_by_key, or the error that
\* there is no maximum
ReturnMax ==
    /\ harness.pc = "Start"
    /\ cur = Main
    /\ harness.permutations = <<>>
    /\ harness' =
          IF harness.thruster_outputs = <<>>
          THEN [harness EXCEPT !.pc = "Returned", !.err = "NoMaximum",
                               !.orphans = @ + Unfinished]
          ELSE [harness EXCEPT !.pc = "Returned",
                               !.result = <<MaxByKey(harness.thruster_outputs)>>,
                               !.orphans = @ + Unfinished]
    /\ cur' = Idle
    /\ last' = Snapshot(Main)
    /\ UNCHANGED <<amps, chan, sent>>
    /\ UNCHANGED <<vm_vars, ds_vars>>

(***************************************************************************)
(* The programs the harnesses are given, and the specification.            *)
(***************************************************************************)
\* an amplifier controller making K round trips: it reads its phase
\* setting, then K times reads a signal and writes signal + phase
RoundTrips(K) ==
    <<3, 18, 3, 19, 1, 18, 19, 19, 4, 19, 1001, 20, -1, 20, 1005, 20, 2, 99,
      0, 0, K>>

RoundTripPrograms == { RoundTrips(K) : K \in 1..MaxRounds }

\* programs that are no such controller
OtherPrograms ==
    { <<99>>, <<3, 0, 99>>, <<3, 0, 4, 0, 99>>, <<3, 0, 4, 0, 98>>,
      <<3, 0, 4, 0, 104, 77, 99>>, <<3, 0, 4, 0, 3, 1, 99>>,
      <<3, 0, 4, 0, 3, 1, 3, 2, 99>>, <<3, 0, 3, 1, 4, 1, 3, 2, 99>>,
      <<103, 0, 99>>, <<3, -1, 99>>, <<3, 9, 99>>, <<3, 0, 4, 9, 99>>,
      <<3, 0, 3, 1, 3, 2, 4, 0, 99>>, <<3, 0, 3, 1, 4, 0, 4, 1, 99>> }

PipelinePrograms == RoundTripPrograms \cup OtherPrograms

NewHarness(call, prog, n) ==
    [call |-> call, program |-> prog, num_amps |-> n,
     pc |-> IF call = "looped" THEN "Call" ELSE "Start",
     permutations |-> PermutationsOf(IF call = "looped" THEN LoopedPhases
                                   ELSE ChainPhases, n),
     phase_settings |-> <<>>, thruster_outputs |-> <<>>, thruster_val |-> 0,
     i |-> 0, result |-> <<>>, err |-> "None", orphans |-> 0, started |-> 0,
     received |-> <<>>, earlier |-> <<>>]

PipelineInit ==
    /\ harness \in { NewHarness(call, prog, n) :
                        call \in {"looped", "chain"},
                        prog \in PipelinePrograms,
                        n \in 0..MaxAmps }
    /\ amps = <<>>
    /\ chan = <<>>
    /\ sent = <<>>
    /\ cur = Main
    /\ last = NoLast
    /\ disjoint_set = <<>>
    /\ called = <<>>
    /\ program = <<>>
    /\ input = <<>>
    /\ instruction_pointer = 0
    /\ relative_base = 0
    /\ output = <<>>
    /\ status = "Idle"
    /\ err = "None"
    /\ prev = NoPrev
    /\ steps = 0
    /\ image = <<>>
    /\ given = <<>>

PipelineNext ==
    \/ EnsureAmps
    \/ StartLooped
    \/ Recv
    \/ Forward
    \/ StartChain
    \/ Collect
    \/ ReturnMax
    \/ AmpFault
    \/ AmpArith
    \/ AmpJump
    \/ AmpReadInput
    \/ AmpAwaitInput
    \/ AmpMissingInput
    \/ AmpWriteOutput
    \/ AmpHalt

Pipeline == PipelineInit /\ [][PipelineNext]_vars

(***************************************************************************)
(* The ring alone, under the scheduling of the runtime: as long as the     *)
(* harness or a task is ready, one of them runs.                           *)
(***************************************************************************)
\* the round-trip controllers, a program that ends in an unknown opcode,
\* and one that reads once more than its neighbour writes
RingPrograms ==
    RoundTripPrograms
        \cup { <<3, 0, 4, 0, 98>>, <<3, 0, 4, 0, 3, 1, 3, 2, 99>> }

RingInit ==
    /\ harness \in { NewHarness("looped", prog, n) :
                        prog \in RingPrograms, n \in 0..MaxAmps }
    /\ amps = <<>>
    /\ chan = <<>>
    /\ sent = <<>>
    /\ cur = Main
    /\ last = NoLast
    /\ disjoint_set = <<>>
    /\ called = <<>>
    /\ program = <<>>
    /\ input = <<>>
    /\ instruction_pointer = 0
    /\ relative_base = 0
    /\ output = <<>>
    /\ status = "Idle"
    /\ err = "None"
    /\ prev = NoPrev
    /\ steps = 0
    /\ image = <<>>
    /\ given = <<>>

RingNext ==
    \/ EnsureAmps
    \/ StartLooped
    \/ Recv
    \/ Forward
    \/ ReturnMax
    \/ AmpFault
    \/ AmpArith
    \/ AmpJump
    \/ AmpReadInput
    \/ AmpAwaitInput
    \/ AmpMissingInput
    \/ AmpWriteOutput
    \/ AmpHalt

FairRing == RingInit /\ [][RingNext]_vars /\ WF_vars(RingNext)

(***************************************************************************)
(* Two calls of find_max_thruster_val_looped with the same arguments.      *)
(* #[tokio::main] builds a runtime for each call and drops it, with the    *)
(* tasks left on it, when the call ends; `earlier` keeps what the first    *)
(* call had recorded.                                                      *)
(***************************************************************************)
\* the harness has been followed as far as it is: it has returned, or it
\* is between two permutations with MaxPermutations of them started
FollowedToEnd ==
    \/ harness.pc = "Returned"
    \/ /\ harness.pc = "Start"
       /\ cur = Main
       /\ harness.started = MaxPermutations

\* the second call, on the program and num_amps of the first
CallAgain ==
    /\ Looped
    /\ FollowedToEnd
    /\ harness.earlier = <<>>
    /\ harness' = [NewHarness("looped", harness.program, harness.num_amps)
                     EXCEPT !.earlier = <<harness.thruster_outputs>>]
    /\ amps' = <<>>
    /\ chan' = <<>>
    /\ sent' = <<>>
    /\ cur' = Main
    /\ last' = Snapshot(Main)
    /\ UNCHANGED <<vm_vars, ds_vars>>

\* programs whose instances all halt: the round-trip controllers, and one
\* that writes its phase setting, reads once and halts
TwicePrograms == RoundTripPrograms \cup { <<3, 0, 4, 0, 3, 1, 99>> }

TwiceInit ==
    /\ harness \in { NewHarness("looped", prog, n) :
                        prog \in TwicePrograms, n \in 0..MaxAmps }
    /\ amps = <<>>
    /\ chan = <<>>
    /\ sent = <<>>
    /\ cur = Main
    /\ last = NoLast
    /\ disjoint_set = <<>>
    /\ called = <<>>
    /\ program = <<>>
    /\ input = <<>>
    /\ instruction_pointer = 0
    /\ relative_base = 0
    /\ output = <<>>
    /\ status = "Idle"
    /\ err = "None"
    /\ prev = NoPrev
    /\ steps = 0
    /\ image = <<>>
    /\ given = <<>>

\* no instance of these programs meets an unknown opcode or a closed
\* input
TwiceNext ==
    \/ EnsureAmps
    \/ StartLooped
    \/ Recv
    \/ Forward
    \/ ReturnMax
    \/ AmpArith
    \/ AmpJump
    \/ AmpReadInput
    \/ AmpAwaitInput
    \/ AmpWriteOutput
    \/ AmpHalt
    \/ CallAgain

Twice == TwiceInit /\ [][TwiceNext]_vars

(***************************************************************************)
(* Reading the last step of the pipeline.                                  *)
(***************************************************************************)
\* the last step was an iteration of instance i
StepOf(i) == last.who = i /\ i \in DOMAIN last.amps

\* the opcode an instance in state a is at (0: none)
OpOfAmp(a) ==
    IF InBounds(a.program, a.instruction_pointer)
       /\ Cell(a.program, a.instruction_pointer) >= 0
       /\ get_parameter_modes7(Cell(a.program, a.instruction_pointer)).ok
    THEN Cell(a.program, a.instruction_pointer) % 100
    ELSE 0

\* the last step was an iteration of instance i on an opcode of ops
AmpRan(i, ops) == StepOf(i) /\ OpOfAmp(last.amps[i]) \in ops

\* before the last step, the Sender of the channel instance i receives
\* from was not dropped
HadSender(i) ==
    /\ last.harness.call = "looped"
    /\ (i = 0 \/ ~Finished(last.amps[i - 1]))

\* before the last step, the stream of instance i had no value to give
HadNoValue(i) == last.amps[i].phase = <<>> /\ last.chan[i] = <<>>

(***************************************************************************)
(* C13: an opcode 3 step on an input source that is closed with no value   *)
(* left fails with MissingInput and writes no memory cell; on a source     *)
(* that is empty but has a sender, the instance does not fail: it waits at *)
(* the instruction, and when it runs again it is at that instruction and   *)
(* stores the first value that was sent since.                             *)
(***************************************************************************)
C13_ClosedOrWaiting ==
    \A i \in DOMAIN amps :
        LET a == last.amps[i]
            b == amps[i]
        IN  /\ (AmpRan(i, {3}) /\ HadNoValue(i) /\ ~HadSender(i)) =>
                  /\ b.status = "Failed"
                  /\ b.err = "MissingInput"
                  /\ b.program = a.program
                  /\ chan = last.chan
            /\ (AmpRan(i, {3}) /\ HadNoValue(i) /\ HadSender(i)) =>
                  /\ b.status = "AwaitingInput"
                  /\ b.err = "None"
                  /\ b.program = a.program
                  /\ b.instruction_pointer = a.instruction_pointer
                  /\ chan = last.chan
            /\ (StepOf(i) /\ a.resumed) =>
                  /\ AmpRan(i, {3})
                  /\ b.status # "AwaitingInput"
                  /\ last.chan[i] # <<>> =>
                        /\ Head(last.chan[i]) = sent[i][Len(a.taken) + 1]
                        /\ chan[i] = Tail(last.chan[i])
                        /\ b.status = "Running" =>
                              /\ b.program =
                                    Store(a.program,
                                          Cell(a.program,
                                               a.instruction_pointer + 1),
                                          Head(last.chan[i]))
                              /\ b.instruction_pointer =
                                    a.instruction_pointer + 2
                  /\ last.chan[i] = <<>> =>
                        b.status = "Failed" /\ b.err = "MissingInput"

\* an instance that had waited for its input has stored the value its
\* neighbour sent
C13_Witness ==
    \E i \in DOMAIN amps :
        /\ i > 0
        /\ StepOf(i)
        /\ last.amps[i].resumed
        /\ last.chan[i] # <<>>
        /\ amps[i].status = "Running"
        /\ amps[i].taken = <<Head(last.chan[i])>>

(***************************************************************************)
(* C14: an instance is AwaitingInput only at an opcode 3 whose input queue *)
(* is empty (and whose phase setting is taken); only a step of opcode 3    *)
(* leaves an instance suspended; and a step of opcode 4 whose operand      *)
(* resolves completes at once, the value joining the queue of the next     *)
(* channel behind whatever that queue holds.                               *)
(***************************************************************************)
\* before the last step the Receiver of the channel instance i sends on
\* was not dropped
HadReceiver(i) ==
    i + 1 = last.harness.num_amps \/ ~Finished(last.amps[i + 1])

C14_SuspendsOnlyOnInput ==
    \A i \in DOMAIN amps :
        LET a == last.amps[i]
            b == amps[i]
        IN  /\ b.status = "AwaitingInput" =>
                  /\ Looped
                  /\ OpOfAmp(b) = 3
                  /\ b.phase = <<>>
                  /\ chan[i] = <<>>
            /\ (StepOf(i) /\ b.status = "AwaitingInput") => AmpRan(i, {3})
            /\ AmpRan(i, {1, 2, 4, 5, 6, 7, 8, 99}) =>
                  b.status \in {"Running", "Halted", "Failed", "Panicked"}
            /\ AmpRan(i, {4}) =>
                  /\ b.status \in {"Running", "Failed"}
                  /\ b.status = "Running" =>
                        /\ b.instruction_pointer = a.instruction_pointer + 2
                        /\ Len(b.output) = Len(a.output) + 1
                        /\ SubSeq(b.output, 1, Len(a.output)) = a.output
                        /\ (Looped /\ HadReceiver(i) /\ ~a.disconnected_tx)
                              => chan[i + 1] =
                                    Append(last.chan[i + 1],
                                           b.output[Len(b.output)])

\* an output step has completed on a channel that already held a value
C14_Witness ==
    \E i \in DOMAIN amps :
        /\ Looped
        /\ AmpRan(i, {4})
        /\ amps[i].status = "Running"
        /\ Len(last.chan[i + 1]) >= 1
        /\ Len(chan[i + 1]) = Len(last.chan[i + 1]) + 1

(***************************************************************************)
(* C15: in the ring of find_max_thruster_val_looped every channel is       *)
(* first in, first out, and nothing is duplicated or lost: the values a    *)
(* channel has accepted are the values its receiver has taken, in that     *)
(* order, followed by the values still queued; what a channel has accepted *)
(* from instance i is what i has emitted, up to the first value emitted    *)
(* after the receiver ended; and what the harness has sent to instance 0   *)
(* is the seed 0 followed by the values it received from the last          *)
(* instance, up to the one it holds or could not forward because instance  *)
(* 0 had ended.                                                            *)
(***************************************************************************)
IsPrefix(s, t) == Len(s) <= Len(t) /\ SubSeq(t, 1, Len(s)) = s

\* a permutation of the ring is being worked on
InRing == Looped /\ harness.pc \in {"Recv", "AwaitingRecv", "Forward", "Start"}
              /\ harness.started > 0

C15_ExactlyOnceInOrder ==
    InRing =>
        LET N == harness.num_amps
        IN  /\ \A c \in 0..(N - 1) : sent[c] = amps[c].taken \o chan[c]
            /\ sent[N] = harness.received \o chan[N]
            /\ \A i \in 0..(N - 1) :
                  /\ IsPrefix(sent[i + 1], amps[i].output)
                  /\ Len(sent[i + 1]) < Len(amps[i].output) =>
                        /\ amps[i].disconnected_tx
                        /\ ~ReceiverAlive(i + 1)
            /\ sent[0] # <<>>
            /\ Head(sent[0]) = 0
            /\ IsPrefix(Tail(sent[0]), harness.received)
            /\ Len(harness.received) - Len(Tail(sent[0])) \in {0, 1}
            /\ Len(Tail(sent[0])) < Len(harness.received) =>
                  \/ harness.pc = "Forward"
                  \/ Finished(amps[0])

\* both instances of a ring of two have taken two values from their
\* channels, one of them relayed by the harness
C15_Witness ==
    /\ InRing
    /\ harness.num_amps = 2
    /\ Len(sent[0]) = 2
    /\ amps[0].taken = sent[0]
    /\ Len(amps[1].taken) = 2
    /\ amps[1].taken = amps[0].output
    /\ Tail(sent[0]) = SubSeq(amps[1].output, 1, 1)

(***************************************************************************)
(* C16: in a ring whose program reads its phase setting and then makes K   *)
(* round trips (read one value, write one value) before it halts, under    *)
(* fair scheduling the forwarding loop of every permutation is left, with  *)
(* every instance of that permutation Halted; no run of the ring blocks    *)
(* forever.                                                                *)
(***************************************************************************)
\* the harness is in the forwarding loop of a permutation of a ring of
\* round-trip controllers
C16_InLoop ==
    /\ Looped
    /\ harness.program \in RoundTripPrograms
    /\ harness.pc \in {"Recv", "AwaitingRecv", "Forward"}

\* the harness has left the loop of the permutation it last started
C16_Left ==
    /\ Looped
    /\ harness.program \in RoundTripPrograms
    /\ harness.pc = "Start"
    /\ harness.started > 0

C16_AllHalted == \A i \in DOMAIN amps : amps[i].status = "Halted"

C16_RingTerminates ==
    /\ C16_InLoop ~> C16_Left
    /\ [](C16_Left => C16_AllHalted)

\* the loop of a ring of two instances making two round trips has been
\* left with both halted
C16_Witness ==
    /\ C16_Left
    /\ C16_AllHalted
    /\ harness.program = RoundTrips(2)
    /\ harness.num_amps = 2
    /\ \A i \in DOMAIN amps : Len(amps[i].output) = 2

(***************************************************************************)
(* C17: when the send of the harness to instance 0 fails, the value the    *)
(* harness records is the last value instance N-1 produces over its whole  *)
(* run.                                                                    *)
(***************************************************************************)
\* the last step was the send of the harness that failed: an entry has
\* been recorded for the permutation
Recorded ==
    /\ Looped
    /\ last.who = Main
    /\ last.harness.pc = "Forward"
    /\ harness.pc = "Start"

\* the entry just recorded
Entry == harness.thruster_outputs[Len(harness.thruster_outputs)]

\* what the last instance has given to its output_fn
LastAmpOutput == amps[harness.num_amps - 1].output

\* C17: the entry recorded holds the last value the last instance has
\* produced
C17_RecordsLastValue ==
    (Recorded /\ Finished(amps[harness.num_amps - 1])) =>
        Entry.val = LastAmpOutput[Len(LastAmpOutput)]

(***************************************************************************)
(* C18: in feedback composition, when the harness records the final        *)
(* output of a permutation every instance of the permutation has reached   *)
(* Halted.                                                                 *)
(***************************************************************************)
\* C18: at the step that records an entry, all instances are Halted
C18_AllHaltedWhenRecorded ==
    Recorded => \A i \in DOMAIN amps : amps[i].status = "Halted"

(***************************************************************************)
(* C19: a fatal error of an instance ends the whole harness call with that *)
(* error: no further permutation is evaluated and no pair is returned.     *)
(***************************************************************************)
\* an instance had ended with an error before the last step
HadFailed == \E i \in DOMAIN last.amps : last.amps[i].status = "Failed"

\* C19: once an instance has failed, the harness records no entry, starts
\* no permutation and returns no pair; when it has returned, it has
\* returned the error of the instance
C19_FatalErrorEndsCall ==
    /\ (last.who = Main /\ HadFailed) =>
          /\ harness.thruster_outputs = last.harness.thruster_outputs
          /\ harness.started = last.harness.started
          /\ harness.result = <<>>
    /\ \A i \in DOMAIN amps :
          (harness.pc = "Returned" /\ amps[i].status = "Failed") =>
              harness.err = amps[i].err

(***************************************************************************)
(* C20: both harnesses run the pipeline once for every permutation of      *)
(* num_amps distinct phase settings and return a pair (value, permutation) *)
(* whose value is the final output of the run with that permutation and    *)
(* is not exceeded by the final output of any permutation.                 *)
(***************************************************************************)
\* the harness has returned a pair to its caller
ReturnedPair == harness.pc = "Returned" /\ harness.result # <<>>

\* the permutations the harness of the call enumerates
AllPermutations ==
    PermutationsOf(IF Looped THEN LoopedPhases ELSE ChainPhases,
                   harness.num_amps)

\* C20: the pair returned is one of the entries recorded, one entry per
\* permutation in the order of enumeration, none with a greater value;
\* when it is the entry of the permutation run last, its value is the
\* last output of the last instance of that run
C20_ReturnsBestOfAllPermutations ==
    ReturnedPair =>
        LET outs == harness.thruster_outputs
            r == harness.result[1]
            N == harness.num_amps
        IN  /\ harness.permutations = <<>>
            /\ Len(outs) = Len(AllPermutations)
            /\ \A j \in 1..Len(outs) :
                  outs[j].phase_settings = AllPermutations[j]
            /\ \E j \in 1..Len(outs) : outs[j] = r
            /\ \A j \in 1..Len(outs) : outs[j].val <= r.val
            /\ (N > 0 /\ r.phase_settings = harness.phase_settings) =>
                  r.val = LastAmpOutput[Len(LastAmpOutput)]

(***************************************************************************)
(* C21: in the sequential harness stage i runs to completion on its own    *)
(* copy of the program before stage i + 1 starts, on the inputs            *)
(* [p[i], x_i] with x_0 = 0 and x_(i+1) the last output of stage i, and    *)
(* the value recorded is f_p[N-1](... f_p[0](0) ...), f_c(x) being the     *)
(* last output of a fresh instance run on [c, x].                          *)
(***************************************************************************)
\* iterations that suffice for every program of PipelinePrograms
RunFuel == 6 * MaxRounds + 8

RECURSIVE RunOn(_, _, _, _, _)
\* run_program on a finite input stream, as block_on drives it: the status
\* it ends with and the values given to output_fn
RunOn(mem, ip, ins, out, fuel) ==
    LET r == Exec7(mem, ip,
                   IF ins = <<>> THEN SrcClosed ELSE SrcValue(Head(ins)))
    IN  IF r.status = "Running" /\ fuel > 0
        THEN RunOn(r.program, r.instruction_pointer,
                   IF r.took THEN Tail(ins) ELSE ins, out \o r.emit,
                   fuel - 1)
        ELSE [status |-> IF r.status = "Running" THEN "OutOfFuel"
                         ELSE r.status,
              output |-> out \o r.emit]

\* a fresh instance of the program of the call run on [c, x]
FreshRun(c, x) == RunOn(harness.program, 0, <<c, x>>, <<>>, RunFuel)

\* f_c(x)
LastOutput(c, x) == FreshRun(c, x).output[Len(FreshRun(c, x).output)]

\* the last value of a run, 0 when it gave none
LastOf(run) ==
    IF run.output = <<>> THEN 0 ELSE run.output[Len(run.output)]

RECURSIVE ChainRuns(_, _)
\* the runs of fresh instances on [p[1], 0], [p[2], f_p[1](0)], ... up to
\* stage k, p being indexed from 1
ChainRuns(p, k) ==
    IF k = 0 THEN <<>>
    ELSE LET rs == ChainRuns(p, k - 1)
             x == IF k = 1 THEN 0 ELSE LastOf(rs[k - 1])
         IN  Append(rs, FreshRun(p[k], x))

\* f_c(x) is defined for the run
Gives(run) == run.status = "Halted" /\ run.output # <<>>

\* stage i of the permutation being worked on has not started
NotStarted(i) ==
    amps[i] = NewAmp(harness.program, harness.phase_settings[i + 1])

\* the sequential harness has just recorded an entry
ChainRecorded ==
    /\ ~Looped
    /\ last.who = Main
    /\ last.harness.pc = "BlockOn"
    /\ Len(harness.thruster_outputs)
          = Len(last.harness.thruster_outputs) + 1

\* C21: stages run one after the other, each on [p[i], x_i], and the
\* entry recorded is the composition of the stages' functions
C21_ChainComposes ==
    (~Looped /\ harness.phase_settings # <<>>) =>
        LET p == harness.phase_settings
            N == harness.num_amps
            runs == ChainRuns(p, harness.i + 1)
        IN  /\ \A i \in DOMAIN amps :
                  /\ i < harness.i =>
                        amps[i].status = "Halted" /\ amps[i].output # <<>>
                  /\ i > harness.i => NotStarted(i) /\ sent[i] = <<>>
                  /\ amps[i].phase \in {<<>>, <<p[i + 1]>>}
                  /\ amps[i].phase # <<>> => amps[i].taken = <<>>
                  /\ IsPrefix(amps[i].taken, sent[i])
                  /\ i = 0 => sent[i] = <<0>>
                  /\ (i <= harness.i /\ i > 0) =>
                        /\ Gives(runs[i])
                        /\ sent[i] = <<LastOf(runs[i])>>
                        /\ sent[i] = <<LastOf(amps[i - 1])>>
                  /\ (i <= harness.i /\ Finished(amps[i])) =>
                        /\ amps[i].status = runs[i + 1].status
                        /\ amps[i].output = runs[i + 1].output
            /\ ChainRecorded =>
                  /\ Entry.phase_settings = p
                  /\ Gives(runs[N])
                  /\ Entry.val = LastOf(runs[N])

\* the second of two stages has halted, on the last of the two outputs of
\* the first, and the value of the chain has been recorded
C21_Witness ==
    /\ ~Looped
    /\ harness.num_amps = 2
    /\ harness.pc = "Start"
    /\ last.who = Main
    /\ last.harness.pc = "BlockOn"
    /\ Len(amps[0].output) = 2
    /\ amps[1].taken = <<amps[0].output[2]>>
    /\ amps[0].output[2] # amps[0].output[1]
    /\ Entry.val = LastOutput(harness.phase_settings[2],
                              LastOutput(harness.phase_settings[1], 0))

(***************************************************************************)
(* C22: every instance of a pipeline starts with memory equal to the       *)
(* program image, and a step of one instance changes only that instance's  *)
(* memory and instruction pointer: the memory of every other instance and  *)
(* the program image are unchanged by it.                                  *)
(***************************************************************************)
\* the last step of the harness created the instances of a permutation
Spawned ==
    /\ last.who = Main
    /\ last.harness.pc = "Start"
    /\ harness.pc \in {"Recv", "BlockOn"}

\* C22: instances are created on the program image; an iteration of one
\* instance leaves the memory and instruction pointer of the others and
\* the program image as they were
C22_IndependentMemories ==
    /\ Spawned =>
          \A i \in DOMAIN amps :
              /\ amps[i].program = harness.program
              /\ amps[i].instruction_pointer = 0
    /\ last.who # Idle => harness.program = last.harness.program
    /\ \A i \in DOMAIN amps :
          StepOf(i) =>
              \A j \in DOMAIN amps \ {i} :
                  /\ amps[j].program = last.amps[j].program
                  /\ amps[j].instruction_pointer
                        = last.amps[j].instruction_pointer
    /\ \A i \in DOMAIN amps :
          (~Looped /\ i > harness.i) => amps[i].program = harness.program

\* an instance of a ring of two has just stored into its memory while the
\* memory of the other, changed by its own stores, differs from it
C22_Witness ==
    /\ Looped
    /\ harness.num_amps = 2
    /\ \E i \in DOMAIN amps :
          /\ StepOf(i)
          /\ amps[i].program # last.amps[i].program
          /\ \E j \in DOMAIN amps \ {i} :
                /\ amps[j].program # harness.program
                /\ amps[j].program # amps[i].program
                /\ amps[j].program = last.amps[j].program

(***************************************************************************)
(* C23: in the feedback ring, an output step made after the receiver of    *)
(* the instance's output channel was dropped does not fail the instance:   *)
(* the failed send is only reported, and the instance goes on with its     *)
(* remaining instructions until its own halt or its own fatal error.       *)
(***************************************************************************)
\* the last step of instance i gave a value to output_fn
Emitted(i) ==
    /\ AmpRan(i, {4})
    /\ Len(amps[i].output) = Len(last.amps[i].output) + 1

\* what run_program does on the state instance i was in before the last
\* step, whatever becomes of the values it emits
OwnStep(i) ==
    Exec7(last.amps[i].program, last.amps[i].instruction_pointer, last.src)

\* C23: the output step whose send fails leaves the instance running at
\* the next instruction with its memory as it was, nothing is queued, and
\* every later step of the instance is the step of run_program
C23_DisconnectedOutputContinues ==
    Looped =>
        \A i \in DOMAIN amps :
            /\ (Emitted(i) /\ ~HadReceiver(i)) =>
                  /\ amps[i].status = "Running"
                  /\ amps[i].err = "None"
                  /\ amps[i].disconnected_tx
                  /\ amps[i].program = last.amps[i].program
                  /\ amps[i].instruction_pointer
                        = last.amps[i].instruction_pointer + 2
                  /\ chan[i + 1] = last.chan[i + 1]
            /\ (StepOf(i) /\ last.amps[i].disconnected_tx) =>
                  /\ amps[i].disconnected_tx
                  /\ amps[i].status = OwnStep(i).status
                  /\ amps[i].err = OwnStep(i).err
                  /\ amps[i].program = OwnStep(i).program
                  /\ amps[i].instruction_pointer
                        = OwnStep(i).instruction_pointer
                  /\ amps[i].output = last.amps[i].output \o OwnStep(i).emit
                  /\ chan[i + 1] = last.chan[i + 1]

\* an instance whose first send had failed has gone on, has given a
\* second value to output_fn, and has now halted
C23_Witness ==
    /\ Looped
    /\ \E i \in DOMAIN amps :
          /\ AmpRan(i, {99})
          /\ last.amps[i].disconnected_tx
          /\ Len(amps[i].output) = 2
          /\ amps[i].status = "Halted"
          /\ sent[i + 1] = <<>>

(***************************************************************************)
(* C24: a run whose cell at instruction pointer 0 is 99 returns at once    *)
(* with success, no output, no input consumed and the memory equal to the  *)
(* program image; in general the memory returned on halt is the memory at  *)
(* the moment the halt opcode was decoded.                                 *)
(***************************************************************************)
\* C24: the halting step changes nothing but the status, and on an image
\* starting with 99 it is the first and only step
C24_HaltReturnsMemory ==
    /\ status = "Halted" =>
          /\ Stepped
          /\ err = "None"
          /\ program = prev.program
          /\ Len(program) = Len(prev.program)
          /\ output = prev.output
          /\ input = prev.input
          /\ OpOf(Cell(prev.program, prev.instruction_pointer)) = 99
    /\ (Stepped /\ image # <<>> /\ image[1] = 99) =>
          /\ status = "Halted"
          /\ steps = 1
          /\ err = "None"
          /\ program = image
          /\ output = <<>>
          /\ input = given

\* the program [99] has halted with two input values left untouched
C24_Witness ==
    /\ status = "Halted"
    /\ image = <<99>>
    /\ program = <<99>>
    /\ given = <<42, 7>>
    /\ input = <<42, 7>>
    /\ output = <<>>

(***************************************************************************)
(* The DisjointSet of rust/2018/src/bin/25/disjoint_set.rs.                *)
(*                                                                         *)
(* `disjoint_set` is the struct: the HashSet `roots`, the Vec `elems` and   *)
(* the Vec `nodes` (element i of a Vec is element i + 1 of the sequence).  *)
(* One action is one call of a method, whole; `called` is a history         *)
(* variable: the method, its arguments, what it returned, the struct it    *)
(* was called on, and the number of calls made.                            *)
(***************************************************************************)
Some(v) == [kind |-> "Some", val |-> v]
NoneOpt == [kind |-> "None", val |-> 0]
Ok(v) == [kind |-> "Ok", val |-> v]
ErrDuplicate(v) == [kind |-> "Err", val |-> v]
\* Option::unwrap on None
UnwrapPanic == [kind |-> "Panic", val |-> 0]

\* a method's return value and the struct it leaves
Ret(res, d) == [res |-> res, set |-> d]

\* DisjointSet::new()
new == [roots |-> {}, elems |-> <<>>, nodes |-> <<>>]

\* self.nodes[i]
NodeAt(d, i) == d.nodes[i + 1]

num_subsets(d) == Cardinality(d.roots)

num_elements(d) == Len(d.elems)

\* self.elems.iter().position(|e| e == elem)
position(d, elem) ==
    IF \E i \in 1..Len(d.elems) : d.elems[i] = elem
    THEN Some((CHOOSE i \in 1..Len(d.elems) :
                  /\ d.elems[i] = elem
                  /\ \A j \in 1..(i - 1) : d.elems[j] # elem) - 1)
    ELSE NoneOpt

\* make_subset without the search for an equal element
make_subsetMut(d, elem) ==
    LET insertion_idx == Len(d.elems)
    IN  Ret(Ok(insertion_idx),
            [roots |-> d.roots \cup {insertion_idx},
             elems |-> Append(d.elems, elem),
             nodes |-> Append(d.nodes,
                              [rank |-> 0, parent_idx |-> insertion_idx,
                               next |-> insertion_idx])])

make_subset(d, elem) ==
    IF position(d, elem).kind = "Some"
    THEN Ret(ErrDuplicate(position(d, elem).val), d)
    ELSE LET insertion_idx == Len(d.elems)
         IN  Ret(Ok(insertion_idx),
                 [roots |-> d.roots \cup {insertion_idx},
                  elems |-> Append(d.elems, elem),
                  nodes |-> Append(d.nodes,
                                   [rank |-> 0, parent_idx |-> insertion_idx,
                                    next |-> insertion_idx])])

RECURSIVE PathSplitMut(_, _, _)
\* the while loop with each node on the way made its own parent
PathSplitMut(nodes, curr_idx, fuel) ==
    LET curr == nodes[curr_idx + 1]
        parent_idx == curr.parent_idx
    IN  IF parent_idx = curr_idx
        THEN [idx |-> curr_idx, nodes |-> nodes]
        ELSE IF fuel = 0
        THEN [idx |-> -1, nodes |-> nodes]
        ELSE PathSplitMut([nodes EXCEPT ![curr_idx + 1].parent_idx =
                                            curr_idx],
                          parent_idx, fuel - 1)

RECURSIVE PathSplit(_, _, _)
\* the while loop of find_root_idx: each node on the way is given its
\* grandparent as parent; fuel bounds the walk
PathSplit(nodes, curr_idx, fuel) ==
    LET curr == nodes[curr_idx + 1]
        parent_idx == curr.parent_idx
    IN  IF parent_idx = curr_idx
        THEN [idx |-> curr_idx, nodes |-> nodes]
        ELSE IF fuel = 0
        THEN [idx |-> -1, nodes |-> nodes]
        ELSE PathSplit([nodes EXCEPT ![curr_idx + 1].parent_idx =
                                         nodes[parent_idx + 1].parent_idx],
                       parent_idx, fuel - 1)

find_root_idx(d, elem_idx) ==
    IF elem_idx \in d.roots THEN Ret(Some(elem_idx), d)
    ELSE IF ~InBounds(d.nodes, elem_idx) THEN Ret(NoneOpt, d)
    ELSE LET r == PathSplit(d.nodes, elem_idx, Len(d.nodes))
         IN  Ret(Some(r.idx), [d EXCEPT !.nodes = r.nodes])

same_set(d, elem1_idx, elem2_idx) ==
    LET f1 == find_root_idx(d, elem1_idx)
    IN  IF f1.res.kind = "None" THEN f1
        ELSE LET f2 == find_root_idx(f1.set, elem2_idx)
             IN  IF f2.res.kind = "None" THEN f2
                 ELSE Ret(Some(f1.res.val = f2.res.val), f2.set)

RECURSIVE WalkNext(_, _, _, _, _)
\* the loop of get_set_idxs
WalkNext(nodes, elem_idx, curr_idx, set_idxs, fuel) ==
    LET pushed == Append(set_idxs, curr_idx)
    IN  IF nodes[curr_idx + 1].next = elem_idx \/ fuel = 0
        THEN pushed
        ELSE WalkNext(nodes, elem_idx, nodes[curr_idx + 1].next, pushed,
                      fuel - 1)

get_set_idxs(d, elem_idx) ==
    IF ~InBounds(d.nodes, elem_idx) THEN NoneOpt
    ELSE Some(WalkNext(d.nodes, elem_idx, elem_idx, <<>>, Len(d.nodes)))

\* the indices a Subset iterates over
get_subset(d, elem_idx) == get_set_idxs(d, elem_idx)

\* union leaving the root it has given a parent in roots
unionMut(d, elem_x_idx, elem_y_idx) ==
    LET fx == find_root_idx(d, elem_x_idx)
    IN  IF fx.res.kind = "None" THEN fx
        ELSE LET fy == find_root_idx(fx.set, elem_y_idx)
             IN  IF fy.res.kind = "None" THEN fy
                 ELSE IF fx.res.val = fy.res.val
                 THEN Ret(Some(FALSE), fy.set)
                 ELSE LET d2 == fy.set
                          at_x == fx.res.val
                          at_y == fy.res.val
                          swap == NodeAt(d2, at_x).rank
                                    < NodeAt(d2, at_y).rank
                          x_root_idx == IF swap THEN at_y ELSE at_x
                          y_root_idx == IF swap THEN at_x ELSE at_y
                          x_root == IF swap THEN NodeAt(d2, at_y)
                                    ELSE NodeAt(d2, at_x)
                          y_root == IF swap THEN NodeAt(d2, at_x)
                                    ELSE NodeAt(d2, at_y)
                          x_new == [x_root EXCEPT
                                      !.rank = IF x_root.rank = y_root.rank
                                               THEN @ + 1 ELSE @,
                                      !.next = y_root.next]
                          y_new == [y_root EXCEPT
                                      !.parent_idx = x_root_idx,
                                      !.next = x_root.next]
                      IN  Ret(Some(TRUE),
                              [d2 EXCEPT
                                 !.roots = @,
                                 !.nodes = [@ EXCEPT ![at_x + 1] = x_new,
                                                     ![at_y + 1] = y_new]])

\* union: x_root and y_root are the references into nodes at the two
\* roots found; when the rank of x is lower the two indices are swapped
\* and mem::swap(x_root, y_root) swaps the two nodes themselves
union(d, elem_x_idx, elem_y_idx) ==
    LET fx == find_root_idx(d, elem_x_idx)
    IN  IF fx.res.kind = "None" THEN fx
        ELSE LET fy == find_root_idx(fx.set, elem_y_idx)
             IN  IF fy.res.kind = "None" THEN fy
                 ELSE IF fx.res.val = fy.res.val
                 THEN Ret(Some(FALSE), fy.set)
                 ELSE LET d2 == fy.set
                          at_x == fx.res.val
                          at_y == fy.res.val
                          swap == NodeAt(d2, at_x).rank
                                    < NodeAt(d2, at_y).rank
                          x_root_idx == IF swap THEN at_y ELSE at_x
                          y_root_idx == IF swap THEN at_x ELSE at_y
                          x_root == IF swap THEN NodeAt(d2, at_y)
                                    ELSE NodeAt(d2, at_x)
                          y_root == IF swap THEN NodeAt(d2, at_x)
                                    ELSE NodeAt(d2, at_y)
                          x_new == [x_root EXCEPT
                                      !.rank = IF x_root.rank = y_root.rank
                                               THEN @ + 1 ELSE @,
                                      !.next = y_root.next]
                          y_new == [y_root EXCEPT
                                      !.parent_idx = x_root_idx,
                                      !.next = x_root.next]
                      IN  Ret(Some(TRUE),
                              [d2 EXCEPT
                                 !.roots = @ \ {y_root_idx},
                                 !.nodes = [@ EXCEPT ![at_x + 1] = x_new,
                                                     ![at_y + 1] = y_new]])

is_singleton(d, elem_idx) ==
    IF elem_idx \notin d.roots THEN Some(FALSE)
    ELSE IF ~InBounds(d.nodes, elem_idx) THEN NoneOpt
    ELSE Some(NodeAt(d, elem_idx).next = elem_idx)

make_singleton(d, elem_idx) ==
    IF is_singleton(d, elem_idx).kind = "None" THEN Ret(NoneOpt, d)
    ELSE IF is_singleton(d, elem_idx).val THEN Ret(Some(FALSE), d)
    ELSE IF get_set_idxs(d, elem_idx).kind = "None" THEN Ret(NoneOpt, d)
    ELSE LET set_idxs == get_set_idxs(d, elem_idx).val
         IN  IF Len(set_idxs) < 2 THEN Ret(UnwrapPanic, d)
             ELSE LET next_idx == set_idxs[2]
                      prev_idx == set_idxs[Len(set_idxs)]
                      relinked ==
                          IF prev_idx # elem_idx
                          THEN [d.nodes EXCEPT ![prev_idx + 1].next = next_idx]
                          ELSE d.nodes
                  IN  Ret(Some(TRUE),
                          [d EXCEPT
                             !.roots = @ \cup {elem_idx},
                             !.nodes = [relinked EXCEPT
                                          ![elem_idx + 1].parent_idx = elem_idx,
                                          ![elem_idx + 1].next = elem_idx]])

\* NewSubsetError::EmptySubset
ErrEmptySubset == [kind |-> "Empty", val |-> 0]

RECURSIVE AddLoop(_, _, _, _)
\* the for loop of add_subset from element k of iter on, and what follows
\* it; prev_idx is an Option
AddLoop(d, iter, k, prev_idx) ==
    IF k > Len(iter)
    THEN IF prev_idx.kind = "None" THEN Ret(ErrEmptySubset, d)
         ELSE LET f == find_root_idx(d, prev_idx.val)
              IN  Ret(Ok(f.res.val), f.set)
    ELSE LET m == make_subset(d, iter[k])
         IN  IF m.res.kind = "Err" THEN m
             ELSE LET insertion_idx == m.res.val
                      joined == IF prev_idx.kind = "Some"
                                THEN union(m.set, prev_idx.val,
                                           insertion_idx).set
                                ELSE m.set
                  IN  AddLoop(joined, iter, k + 1, Some(insertion_idx))

add_subset(d, iter) == AddLoop(d, iter, 1, NoneOpt)

\* get_mut(elem_idx), and the caller's assignment of elem through the
\* reference it gives
get_mut(d, elem_idx, elem) ==
    IF InBounds(d.elems, elem_idx)
    THEN Ret(Some(elem), [d EXCEPT !.elems[elem_idx + 1] = elem])
    ELSE Ret(NoneOpt, d)

(***************************************************************************)
(* The calls, and the specification.                                       *)
(***************************************************************************)
\* the values given to make_subset
Elems == 1..MaxElems

\* the indices given to the methods: those of the elements there can be,
\* and MaxElems, which no element ever has
Indices == 0..MaxElems

NoCall == [op |-> "new", args |-> <<>>, res |-> NoneOpt, before |-> new,
           n |-> 0]

\* a call of method op on args that returned r
Call(op, args, r) ==
    /\ r.res.kind # "Panic"
    /\ disjoint_set' = r.set
    /\ called' = [op |-> op, args |-> args, res |-> r.res,
                  before |-> disjoint_set, n |-> called.n + 1]
    /\ UNCHANGED <<vm_vars, pipe_vars>>

\* a call of make_singleton that panics: the struct is not used
\* afterwards
MakeSingletonPanics ==
    /\ called.n < MaxOps
    /\ \E i \in Indices :
          /\ make_singleton(disjoint_set, i).res.kind = "Panic"
          /\ called' = [op |-> "panic", args |-> <<i>>, res |-> UnwrapPanic,
                        before |-> disjoint_set, n |-> MaxOps]
    /\ UNCHANGED disjoint_set
    /\ UNCHANGED <<vm_vars, pipe_vars>>

MakeSubset ==
    \E elem \in Elems :
        /\ called.n < MaxOps
        /\ Call("make_subset", <<elem>>, make_subset(disjoint_set, elem))

Union ==
    \E x \in Indices, y \in Indices :
        /\ called.n < MaxOps
        /\ Call("union", <<x, y>>, union(disjoint_set, x, y))

MakeSingleton ==
    \E i \in Indices :
        /\ called.n < MaxOps
        /\ Call("make_singleton", <<i>>, make_singleton(disjoint_set, i))

FindRootIdx ==
    \E i \in Indices :
        /\ called.n < MaxOps
        /\ Call("find_root_idx", <<i>>, find_root_idx(disjoint_set, i))

SameSet ==
    \E x \in Indices, y \in Indices :
        /\ called.n < MaxOps
        /\ Call("same_set", <<x, y>>, same_set(disjoint_set, x, y))

GetSubset ==
    \E i \in Indices :
        /\ called.n < MaxOps
        /\ Call("get_subset", <<i>>,
                Ret(get_subset(disjoint_set, i), disjoint_set))

IsSingleton ==
    \E i \in Indices :
        /\ called.n < MaxOps
        /\ Call("is_singleton", <<i>>,
                Ret(is_singleton(disjoint_set, i), disjoint_set))

\* the iterators given to add_subset
Iters == { <<>> } \cup { <<a>> : a \in Elems }
            \cup { <<a, b>> : a \in Elems, b \in Elems }

AddSubset ==
    \E iter \in Iters :
        /\ called.n < MaxWrites
        /\ Call("add_subset", <<iter>>, add_subset(disjoint_set, iter))

GetMut ==
    \E i \in Indices, elem \in Elems :
        /\ called.n < MaxWrites
        /\ Call("get_mut", <<i, elem>>, get_mut(disjoint_set, i, elem))

DisjointSetInit ==
    /\ disjoint_set = new
    /\ called = NoCall
    /\ harness = <<>>
    /\ amps = <<>>
    /\ chan = <<>>
    /\ sent = <<>>
    /\ cur = Idle
    /\ last = <<>>
    /\ program = <<>>
    /\ input = <<>>
    /\ instruction_pointer = 0
    /\ relative_base = 0
    /\ output = <<>>
    /\ status = "Idle"
    /\ err = "None"
    /\ prev = NoPrev
    /\ steps = 0
    /\ image = <<>>
    /\ given = <<>>

DisjointSetNext ==
    \/ MakeSubset
    \/ Union
    \/ MakeSingleton
    \/ FindRootIdx
    \/ SameSet
    \/ GetSubset
    \/ IsSingleton
    \/ MakeSingletonPanics

DisjointSets == DisjointSetInit /\ [][DisjointSetNext]_vars

\* the calls on a DisjointSet that is built by make_subset and union only
UnionFindNext ==
    \/ MakeSubset
    \/ Union
    \/ FindRootIdx
    \/ SameSet
    \/ GetSubset
    \/ IsSingleton

UnionFind == DisjointSetInit /\ [][UnionFindNext]_vars

\* the calls that add elements, join subsets or give the caller a `&mut T`
ElementAccessNext ==
    \/ MakeSubset
    \/ AddSubset
    \/ GetMut
    \/ Union

ElementAccess == DisjointSetInit /\ [][ElementAccessNext]_vars

\* the indices of the elements of d
Existing(d) == 0..(Len(d.elems) - 1)

\* same_set(a, b) == Some(true), asked of d
Together(d, a, b) ==
    same_set(d, a, b).res.kind = "Some" /\ same_set(d, a, b).res.val

\* the elements get_subset(e) yields, asked of d
SubsetOf(d, e) ==
    LET idxs == get_subset(d, e).val
    IN  { idxs[k] : k \in 1..Len(idxs) }

\* the last call was op on args
Called(op, args) == called.op = op /\ called.args = args

\* the last call returned Some(v), Ok(v) or Err(v)
Gave(kind, v) == called.res.kind = kind /\ called.res.val = v

(***************************************************************************)
(* C25: get_subset(e) yields exactly the elements that are in the same     *)
(* subset as e, each once; after union(a, b) returns Some(true),           *)
(* get_subset(a) and get_subset(b) contain every element of both former    *)
(* subsets.                                                                *)
(***************************************************************************)
\* C25: get_subset(e) is the class of e under same_set, without
\* repetition, and a union that returned Some(true) has joined the two
\* subsets as get_subset yields them
C25_SubsetIsSameSetClass ==
    /\ \A e \in Existing(disjoint_set) :
          /\ SubsetOf(disjoint_set, e)
                = { x \in Existing(disjoint_set) :
                      Together(disjoint_set, e, x) }
          /\ Len(get_subset(disjoint_set, e).val)
                = Cardinality(SubsetOf(disjoint_set, e))
    /\ \A a \in Indices, b \in Indices :
          (Called("union", <<a, b>>) /\ Gave("Some", TRUE)) =>
              LET both == SubsetOf(called.before, a)
                            \cup SubsetOf(called.before, b)
              IN  /\ both \subseteq SubsetOf(disjoint_set, a)
                  /\ both \subseteq SubsetOf(disjoint_set, b)

(***************************************************************************)
(* C26: for existing a and b, union(a, b) returns Some(true) exactly when  *)
(* a and b were in different subsets and Some(false) exactly when they     *)
(* were in the same; after Some(true) they are in the same subset, there   *)
(* is one subset fewer, and same_set is unchanged for every pair not       *)
(* spanning the two merged subsets; after Some(false) or None the          *)
(* partition and the number of subsets are unchanged.                      *)
(***************************************************************************)
\* same_set answers the same for every pair of indices in d and e
SamePartition(d, e) ==
    \A p \in Indices, q \in Indices :
        same_set(d, p, q).res = same_set(e, p, q).res

\* C26: what union returns, and what it does to the partition that
\* same_set shows and to num_subsets
C26_UnionMergesTwoSubsets ==
    \A a \in Indices, b \in Indices :
        Called("union", <<a, b>>) =>
            LET B == called.before
                exist == a \in Existing(B) /\ b \in Existing(B)
            IN  /\ called.res.kind = "None" <=> ~exist
                /\ exist =>
                      /\ called.res.kind = "Some"
                      /\ called.res.val <=> ~Together(B, a, b)
                /\ (exist /\ called.res.val) =>
                      /\ Together(disjoint_set, a, b)
                      /\ num_subsets(disjoint_set) = num_subsets(B) - 1
                      /\ \A p \in Existing(B), q \in Existing(B) :
                            Together(disjoint_set, p, q)
                              <=> \/ Together(B, p, q)
                                  \/ Together(B, p, a) /\ Together(B, q, b)
                                  \/ Together(B, p, b) /\ Together(B, q, a)
                /\ (~exist \/ ~called.res.val) =>
                      /\ SamePartition(disjoint_set, B)
                      /\ num_subsets(disjoint_set) = num_subsets(B)
                      /\ disjoint_set.elems = B.elems

\* a union has merged a subset of two elements with a subset of one
C26_Witness ==
    /\ called.op = "union"
    /\ Gave("Some", TRUE)
    /\ num_subsets(called.before) = 2
    /\ num_subsets(disjoint_set) = 1
    /\ num_elements(disjoint_set) = 3
    /\ \A p \in Existing(disjoint_set), q \in Existing(disjoint_set) :
          Together(disjoint_set, p, q)

(***************************************************************************)
(* C27: after make_singleton(e) returns Some(true), e is alone in its      *)
(* subset, the other elements of its former subset are still in one        *)
(* common subset, and there is one subset more; it returns Some(false)     *)
(* and changes nothing when e was a singleton already, and None when e     *)
(* does not exist.                                                         *)
(***************************************************************************)
\* is_singleton(e) == Some(true), asked of d
Alone(d, e) ==
    is_singleton(d, e).kind = "Some" /\ is_singleton(d, e).val

\* C27: what make_singleton returns, and what it does to the subsets
C27_MakeSingletonIsolates ==
    \A e \in Indices :
        Called("make_singleton", <<e>>) =>
            LET B == called.before
                former == { x \in Existing(B) \ {e} : Together(B, e, x) }
            IN  /\ called.res.kind = "None" <=> e \notin Existing(B)
                /\ (e \in Existing(B) /\ Alone(B, e)) =>
                      Gave("Some", FALSE) /\ disjoint_set = B
                /\ Gave("Some", TRUE) =>
                      /\ Alone(disjoint_set, e)
                      /\ \A x \in Existing(B) \ {e} :
                            ~Together(disjoint_set, e, x)
                      /\ \A p \in former, q \in former :
                            Together(disjoint_set, p, q)
                      /\ num_subsets(disjoint_set) = num_subsets(B) + 1

(***************************************************************************)
(* C28: make_subset(elem) returns Err with the existing index and changes  *)
(* nothing when an equal element is present; otherwise it returns Ok(i)    *)
(* with i the previous number of elements, the new element is a singleton  *)
(* subset and there is one subset more.  No call of make_subset,           *)
(* add_subset, union or make_singleton makes two stored elements equal.    *)
(***************************************************************************)
\* no two elements of d are equal
Distinct(d) ==
    \A i \in 1..Len(d.elems), j \in 1..Len(d.elems) :
        i # j => d.elems[i] # d.elems[j]

\* C28 as stated: after any sequence of calls no two stored elements are
\* equal
C28_NoTwoEqualElements == Distinct(disjoint_set)

\* C28: what make_subset returns and does, and that only a write through
\* get_mut can make two stored elements equal
C28_MakeSubsetRejectsDuplicates ==
    /\ \A elem \in Elems :
          Called("make_subset", <<elem>>) =>
              LET B == called.before
                  present == \E i \in 1..Len(B.elems) : B.elems[i] = elem
                  i == called.res.val
              IN  /\ present =>
                        /\ called.res.kind = "Err"
                        /\ i \in Existing(B)
                        /\ B.elems[i + 1] = elem
                        /\ disjoint_set = B
                  /\ ~present =>
                        /\ Gave("Ok", num_elements(B))
                        /\ disjoint_set.elems = Append(B.elems, elem)
                        /\ Alone(disjoint_set, i)
                        /\ \A x \in Existing(B) :
                              ~Together(disjoint_set, i, x)
                        /\ \A p \in Existing(B), q \in Existing(B) :
                              Together(disjoint_set, p, q)
                                <=> Together(B, p, q)
                        /\ num_subsets(disjoint_set) = num_subsets(B) + 1
    /\ (called.op # "get_mut" /\ Distinct(called.before))
          => Distinct(disjoint_set)

\* make_subset has added a third element, beside a subset of two
C28_Witness ==
    /\ called.op = "make_subset"
    /\ Gave("Ok", 2)
    /\ num_subsets(called.before) = 1
    /\ num_subsets(disjoint_set) = 2
    /\ Together(disjoint_set, 0, 1)

(***************************************************************************)
(* C29: in find_max_thruster_val_looped, for every permutation whose       *)
(* instances all halt normally the harness records exactly one entry: it   *)
(* never leaves the forwarding loop of such a permutation without          *)
(* recording one.                                                          *)
(***************************************************************************)
\* the last step was the step of the harness that left the forwarding
\* loop of a permutation
LeftLoop ==
    /\ Looped
    /\ last.who = Main
    /\ last.harness.pc \in {"Recv", "AwaitingRecv", "Forward"}
    /\ harness.pc = "Start"

\* C29: when the harness leaves the loop of a permutation whose instances
\* have all halted, it has recorded one entry for it (stated for the
\* permutations of which the harness has received a value)
C29_HaltedRingRecordsOnce ==
    (/\ LeftLoop
     /\ harness.received # <<>>
     /\ \A i \in DOMAIN amps : amps[i].status = "Halted") =>
        /\ Len(harness.thruster_outputs)
              = Len(last.harness.thruster_outputs) + 1
        /\ Entry.phase_settings = harness.phase_settings

Consumed(i) ==
    /\ StepOf(i)
    /\ \/ last.amps[i].phase # amps[i].phase
       \/ last.amps[i].taken # amps[i].taken

\* C31: the phase setting first, then the channel in the order of sending
C31_PhaseThenChannelInOrder ==
    InRing =>
        LET N == harness.num_amps
            p == harness.phase_settings
        IN  \A i \in 0..(N - 1) :
                /\ amps[i].phase \in {<<>>, <<p[i + 1]>>}
                /\ amps[i].taken # <<>> => amps[i].phase = <<>>
                /\ IsPrefix(amps[i].taken, sent[i])
                /\ IF i = 0
                   THEN IsPrefix(amps[i].taken, <<0>> \o harness.received)
                   ELSE IsPrefix(amps[i].taken, amps[i - 1].output)
                /\ Consumed(i) =>
                      IF last.amps[i].phase # <<>>
                      THEN /\ last.src = SrcValue(p[i + 1])
                           /\ amps[i].phase = <<>>
                           /\ amps[i].taken = <<>>
                      ELSE /\ last.chan[i] # <<>>
                           /\ last.src = SrcValue(Head(last.chan[i]))
                           /\ amps[i].taken
                                 = Append(last.amps[i].taken, last.src.val)
                           /\ chan[i] = Tail(last.chan[i])

\* instance 1 of a ring of two has just consumed the second output of
\* instance 0, which had consumed the seed and a value the harness
\* forwarded
C31_Witness ==
    /\ InRing
    /\ harness.num_amps = 2
    /\ Consumed(1)
    /\ Len(amps[1].taken) = 2
    /\ amps[1].taken = amps[0].output
    /\ amps[0].taken = <<0>> \o harness.received
    /\ amps[0].taken[2] # 0

(***************************************************************************)
(* C32: a run of run_program ends only by halting, by awaiting input or    *)
(* with one of the reported errors: the opcode fetch at the instruction    *)
(* pointer is always at an index inside memory.                            *)
(***************************************************************************)
\* C32: every iteration has fetched its opcode inside memory, and no run
\* has ended with an index out of bounds
C32_NeverFaultsOutOfBounds ==
    /\ status \in {"Running", "Halted", "Failed"}
    /\ Stepped => InBounds(prev.program, prev.instruction_pointer)

(***************************************************************************)
(* C33: a step that fails leaves the input source untouched: an opcode-3   *)
(* step whose destination is invalid (Immediate mode, negative address,    *)
(* missing parameter cell) fails without consuming a value.                *)
(***************************************************************************)
\* C33: after an iteration that ended the run with an error, the input
\* stream is what it was before the iteration
C33_FailedStepKeepsInput ==
    (Stepped /\ status = "Failed") => input = prev.input

(***************************************************************************)
(* C34: if, at the start of a step, a parameter cell the instruction needs *)
(* lies at or beyond the end of memory, the step fails with the            *)
(* missing-parameter error and stores no value, whatever the earlier       *)
(* operands of the instruction address.                                    *)
(***************************************************************************)
\* the last instruction had a parameter whose cell was not in memory when
\* the iteration began, and the operands before it named no negative index
C34_Pre ==
    /\ Ran({1, 2, 4, 5, 6, 7, 8, 9})
    /\ C8_ModesValid
    /\ \E k \in C12_Params(PInstr % 100) :
          /\ ~InBounds(PMem, PIp + k + 1)
          /\ \A j \in 0..(k - 1) : C8_Resolves(j)

\* C34: such a step ends the run with the missing-parameter error, and
\* has stored nothing
C34_MissingParameterFails ==
    C34_Pre =>
        /\ status = "Failed"
        /\ err = "ParameterNotFound"
        /\ OldCellsKept({})
        /\ NewCellsZero({})

(***************************************************************************)
(* The VM of rust/2019/src/bin/2/main.rs: cells are usize, the whole cell  *)
(* is the instruction, the operands are positions.  An index outside the   *)
(* Vec panics; an addition or multiplication that overflows panics when    *)
(* the build checks overflow and wraps when it does not.                   *)
(***************************************************************************)
UsizeMax == 2 ^ WordBits - 1
IsizeMax == 2 ^ (WordBits - 1) - 1
IsizeMin == -(2 ^ (WordBits - 1))

\* a result of isize arithmetic that wraps
WrapIsize(v) == ((v - IsizeMin) % (2 ^ WordBits)) + IsizeMin

S2(mem, ip, st, e) ==
    [program |-> mem, instruction_pointer |-> ip, status |-> st, err |-> e]

\* the 1 | 2 arm of day 2
ArithStep2(mem, ip, instruction, wraps) ==
    IF ~(InBounds(mem, ip + 1) /\ InBounds(mem, ip + 2)
           /\ InBounds(mem, ip + 3))
    THEN S2(mem, ip, "Panicked", "IndexOutOfBounds")
    ELSE IF ~(InBounds(mem, Cell(mem, ip + 1))
                /\ InBounds(mem, Cell(mem, ip + 2)))
    THEN S2(mem, ip, "Panicked", "IndexOutOfBounds")
    ELSE LET x == Cell(mem, Cell(mem, ip + 1))
             y == Cell(mem, Cell(mem, ip + 2))
             result_idx == Cell(mem, ip + 3)
             result == IF instruction = 1 THEN x + y ELSE x * y
         IN  IF result > UsizeMax /\ ~wraps
             THEN S2(mem, ip, "Panicked", "ArithmeticOverflow")
             ELSE IF ~InBounds(mem, result_idx)
             THEN S2(mem, ip, "Panicked", "IndexOutOfBounds")
             ELSE S2(Store(mem, result_idx, result % (2 ^ WordBits)),
                     ip + 4, "Running", "None")

\* the body of `loop` of run_program of day 2
Exec2(mem, ip, wraps) ==
    IF ~InBounds(mem, ip) THEN S2(mem, ip, "Panicked", "IndexOutOfBounds")
    ELSE LET instruction == Cell(mem, ip)
         IN  CASE instruction \in {1, 2} ->
                      ArithStep2(mem, ip, instruction, wraps)
                [] instruction = 99 -> S2(mem, ip, "Halted", "None")
                [] OTHER -> S2(mem, ip, "Failed", "UnknownOpcode")

\* one iteration of the day-9 VM on isize cells: a result outside isize
\* panics when the build checks overflow and wraps when it does not
ExecIsize(mem, ip, rb, inp, out, wraps) ==
    LET s == Exec(mem, ip, rb, inp, out)
        fits == /\ \A i \in 1..Len(s.program) :
                      s.program[i] >= IsizeMin /\ s.program[i] <= IsizeMax
                /\ s.relative_base >= IsizeMin
                /\ s.relative_base <= IsizeMax
    IN  IF fits THEN s
        ELSE IF wraps
        THEN [s EXCEPT !.program = [i \in 1..Len(s.program) |->
                                      WrapIsize(s.program[i])],
                       !.relative_base = WrapIsize(s.relative_base)]
        ELSE St(mem, ip, rb, inp, out, "Panicked", "ArithmeticOverflow")

RECURSIVE Run9(_, _, _, _, _, _, _)
\* run_program of day 9 for at most fuel iterations
Run9(mem, ip, rb, inp, out, wraps, fuel) ==
    LET s == ExecIsize(mem, ip, rb, inp, out, wraps)
    IN  IF s.status = "Running" /\ fuel > 0
        THEN Run9(s.program, s.instruction_pointer, s.relative_base,
                  s.input, s.output, wraps, fuel - 1)
        ELSE s

\* the programs given to the day-2 VM: one or two instructions, a halt,
\* and two cells of data; every cell is a value of usize and of isize
Day2Cells == {2, 100, IsizeMax}

Day2Programs ==
    { <<op, a, b, c, 99, d1, d2>> :
        op \in {0, 1, 2, 99}, a \in {0, 5, 6, 7}, b \in {0, 5, 6, 7},
        c \in {0, 4, 6, 7}, d1 \in Day2Cells, d2 \in Day2Cells }
      \cup
    { <<op, 9, 10, c, op2, 0, 10, 0, 99, d1, d2>> :
        op \in {1, 2}, op2 \in {1, 2}, c \in {0, 4, 9},
        d1 \in Day2Cells, d2 \in Day2Cells }
      \cup
    { <<op, 0, 0, c>> : op \in {1, 2}, c \in {0, 3, 4} }

\* iterations that suffice for every program of Day2Programs
Day2Fuel == 4

Day2Init ==
    /\ program \in Day2Programs
    /\ image = program
    /\ instruction_pointer = 0
    /\ status = "Running"
    /\ err = "None"
    /\ steps = 0
    /\ input = <<>>
    /\ given = <<>>
    /\ output = <<>>
    /\ relative_base = 0
    /\ prev = NoPrev
    /\ harness = <<>>
    /\ amps = <<>>
    /\ chan = <<>>
    /\ sent = <<>>
    /\ cur = Idle
    /\ last = <<>>
    /\ disjoint_set = <<>>
    /\ called = <<>>

\* one iteration of the day-2 VM with outcome s
Apply2(s) ==
    /\ steps < Day2Fuel
    /\ steps' = steps + 1
    /\ prev' = [program |-> program,
                instruction_pointer |-> instruction_pointer,
                relative_base |-> relative_base,
                input |-> input, output |-> output]
    /\ program' = s.program
    /\ instruction_pointer' = s.instruction_pointer
    /\ status' = s.status
    /\ err' = s.err
    /\ UNCHANGED <<relative_base, input, output, image, given>>
    /\ UNCHANGED <<pipe_vars, ds_vars>>

Day2Fetches ==
    status = "Running" /\ InBounds(program, instruction_pointer)

Day2FetchPanic ==
    /\ status = "Running"
    /\ ~InBounds(program, instruction_pointer)
    /\ Apply2(Exec2(program, instruction_pointer, FALSE))

Day2Arith ==
    /\ Day2Fetches
    /\ Cell(program, instruction_pointer) \in {1, 2}
    /\ \E wraps \in BOOLEAN :
          Apply2(Exec2(program, instruction_pointer, wraps))

Day2Halt ==
    /\ Day2Fetches
    /\ Cell(program, instruction_pointer) = 99
    /\ Apply2(Exec2(program, instruction_pointer, FALSE))

Day2UnknownOpcode ==
    /\ Day2Fetches
    /\ Cell(program, instruction_pointer) \notin {1, 2, 99}
    /\ Apply2(Exec2(program, instruction_pointer, FALSE))

Day2Next ==
    \/ Day2FetchPanic
    \/ Day2Arith
    \/ Day2Halt
    \/ Day2UnknownOpcode

Day2 == Day2Init /\ [][Day2Next]_vars

(***************************************************************************)
(* The VM of rust/2019/src/bin/5/main.rs: the loop of day 7, reading from  *)
(* an iterator instead of a stream.                                        *)
(***************************************************************************)
RECURSIVE Run5(_, _, _, _, _)
\* run_program of day 5 for at most fuel iterations
Run5(mem, ip, ins, out, fuel) ==
    IF fuel = 0
    THEN [program |-> mem, instruction_pointer |-> ip, input |-> ins,
          output |-> out, status |-> "Running"]
    ELSE LET r == Exec7(mem, ip,
                        IF ins = <<>> THEN SrcClosed
                        ELSE SrcValue(Head(ins)))
             rest == IF r.took THEN Tail(ins) ELSE ins
         IN  IF r.status = "Running"
             THEN Run5(r.program, r.instruction_pointer, rest,
                       out \o r.emit, fuel - 1)
             ELSE [program |-> r.program,
                   instruction_pointer |-> r.instruction_pointer,
                   input |-> rest, output |-> out \o r.emit,
                   status |-> r.status]

\* the run of the day-9 VM, as far as it has come, is the run of the
\* day-5 VM on the same program and input, when that run halts within
\* MaxSteps iterations
Day5RefinedByDay9 ==
    Run5(image, 0, given, <<>>, MaxSteps).status = "Halted" =>
        LET r == Run5(image, 0, given, <<>>, steps)
        IN  /\ program = r.program
            /\ instruction_pointer = r.instruction_pointer
            /\ input = r.input
            /\ output = r.output
            /\ status = r.status

(***************************************************************************)
(* C35: on every program on which the day-2 VM halts normally, the day-9   *)
(* VM halts with the same final memory (and on every program and input on  *)
(* which the day-5/day-7 VM halts normally, the day-9 VM halts with the    *)
(* same output and the same final memory).                                 *)
(***************************************************************************)
\* C35: when the day-2 VM has halted, the day-9 VM run on the same
\* program halts, in either build, with the memory the day-2 VM has left
C35_Day2RefinedByDay9 ==
    status = "Halted" =>
        \A wraps \in BOOLEAN :
            LET r == Run9(image, 0, 0, <<>>, <<>>, wraps, Day2Fuel)
            IN  /\ r.status = "Halted"
                /\ r.program = program

(***************************************************************************)
(* DisjointSets whose parent chains are two links deep.  Union by rank     *)
(* needs two subsets of two elements for such a chain, so the struct is    *)
(* taken after the make_subset calls of up to MaxElems + 1 elements and up *)
(* to MaxElems union calls, and the calls that follow are counted from     *)
(* there.                                                                  *)
(***************************************************************************)
RECURSIVE Singletons(_)
\* the struct after make_subset(1) .. make_subset(k)
Singletons(k) ==
    IF k = 0 THEN new ELSE make_subset(Singletons(k - 1), k).set

RECURSIVE Unions(_, _)
\* the structs of S after up to k union calls
Unions(S, k) ==
    IF k = 0 THEN S
    ELSE Unions(S \cup { union(d, x, y).set :
                             d \in S, x \in Indices, y \in Indices },
                k - 1)

Forests ==
    Unions({ Singletons(k) : k \in 1..(MaxElems + 1) }, MaxElems)

ForestInit ==
    /\ disjoint_set \in Forests
    /\ called = [NoCall EXCEPT !.before = disjoint_set]
    /\ harness = <<>>
    /\ amps = <<>>
    /\ chan = <<>>
    /\ sent = <<>>
    /\ cur = Idle
    /\ last = <<>>
    /\ program = <<>>
    /\ input = <<>>
    /\ instruction_pointer = 0
    /\ relative_base = 0
    /\ output = <<>>
    /\ status = "Idle"
    /\ err = "None"
    /\ prev = NoPrev
    /\ steps = 0
    /\ image = <<>>
    /\ given = <<>>

ForestNext ==
    \/ MakeSubset
    \/ Union
    \/ MakeSingleton
    \/ FindRootIdx
    \/ MakeSingletonPanics

Forest == ForestInit /\ [][ForestNext]_vars

(***************************************************************************)
(* C36: in every state of a DisjointSet reachable by make_subset, union,   *)
(* make_singleton and find_root_idx calls, every element's parent chain    *)
(* ends at an index contained in roots, roots contains exactly the indices *)
(* that are their own parent, and num_subsets() is the number of distinct  *)
(* results of find_root_idx over all elements; a find_root_idx call never  *)
(* changes the result of same_set for any pair.                            *)
(***************************************************************************)
RECURSIVE ChainEnd(_, _, _)
\* where the parent chain of i ends: the first index that is its own
\* parent, or -1 when there is none within fuel links
ChainEnd(d, i, fuel) ==
    IF NodeAt(d, i).parent_idx = i THEN i
    ELSE IF fuel = 0 THEN -1
    ELSE ChainEnd(d, NodeAt(d, i).parent_idx, fuel - 1)

\* C36: the forest of parent links, roots and num_subsets agree, and
\* path splitting keeps the partition
C36_RootsAreChainEnds ==
    LET d == disjoint_set
    IN  /\ Len(d.nodes) = Len(d.elems)
        /\ \A e \in Existing(d) :
              /\ NodeAt(d, e).parent_idx \in Existing(d)
              /\ ChainEnd(d, e, Len(d.nodes)) \in d.roots
              /\ find_root_idx(d, e).res = Some(ChainEnd(d, e, Len(d.nodes)))
        /\ d.roots = { i \in Existing(d) : NodeAt(d, i).parent_idx = i }
        /\ num_subsets(d)
              = Cardinality({ find_root_idx(d, e).res.val :
                                e \in Existing(d) })
        /\ \A i \in Indices :
              Called("find_root_idx", <<i>>) =>
                  /\ SamePartition(disjoint_set, called.before)
                  /\ disjoint_set.roots = called.before.roots
                  /\ called.res = find_root_idx(called.before, i).res

\* find_root_idx has split the path of an element two links below its
\* root: the element now has its grandparent as parent
C36_Witness ==
    /\ called.op = "find_root_idx"
    /\ disjoint_set.nodes # called.before.nodes
    /\ SamePartition(disjoint_set, called.before)
    /\ num_subsets(disjoint_set) = 1

(***************************************************************************)
(* main of rust/2019/src/bin/2/main.rs: the run with inputs (12, 2), then  *)
(* the search for a pair (noun, verb) that leaves required_value in cell   *)
(* 0.  harness holds the position of main, image the parsed program, and   *)
(* program, status and err the outcome of the last run.                    *)
(***************************************************************************)
RECURSIVE Run2(_, _, _, _)
\* run_program of day 2 for at most fuel iterations
Run2(mem, ip, wraps, fuel) ==
    LET s == Exec2(mem, ip, wraps)
    IN  IF s.status = "Running" /\ fuel > 0
        THEN Run2(s.program, s.instruction_pointer, wraps, fuel - 1)
        ELSE s

run_program_with_inputs(prog, noun, verb, wraps) ==
    IF ~(InBounds(prog, 1) /\ InBounds(prog, 2))
    THEN S2(prog, 0, "Panicked", "IndexOutOfBounds")
    ELSE Run2(Store(Store(prog, 1, noun), 2, verb), 0, wraps, Day2Fuel)

\* the number of items of (0..=MaxNoun).permutations(2)
NumPairs == (MaxNoun + 1) * MaxNoun

\* item k of (0..=MaxNoun).permutations(2), counted from 0: the pairs of
\* two different positions of the range, in lexicographic order
permutations2(k) ==
    LET i == k \div MaxNoun
        j == k % MaxNoun
    IN  <<i, IF j < i THEN j ELSE j + 1>>

\* the input files: an addition or multiplication of the cells named by
\* noun and verb into cell c, a second instruction, a halt, and zeros up
\* to the cell that the run with inputs (12, 2) reads; and a file of two
\* cells
SearchPrograms ==
    { <<op, 0, 0, c, op2, 0, 0, 0, 99, 0, 0, 0, 0>> :
        op \in {1, 2}, c \in {0, 4, 7}, op2 \in {0, 1, 99} }
      \cup { <<99, 0>> }

RequiredValues == {2, 4, 6}

SearchInit ==
    /\ image \in SearchPrograms
    /\ harness \in { [pc |-> "Part1", required_value |-> v, next |-> 0,
                      noun |-> 0, verb |-> 0] : v \in RequiredValues }
    /\ program = <<>>
    /\ instruction_pointer = 0
    /\ status = "Idle"
    /\ err = "None"
    /\ steps = 0
    /\ input = <<>>
    /\ given = <<>>
    /\ output = <<>>
    /\ relative_base = 0
    /\ prev = NoPrev
    /\ amps = <<>>
    /\ chan = <<>>
    /\ sent = <<>>
    /\ cur = Idle
    /\ last = <<>>
    /\ disjoint_set = <<>>
    /\ called = <<>>

\* the outcome r of a run is kept; `?` ends main on an Err, a panic ends
\* the process
Returned(r, pc) ==
    /\ program' = r.program
    /\ instruction_pointer' = r.instruction_pointer
    /\ status' = r.status
    /\ err' = r.err
    /\ harness' = [harness EXCEPT
                     !.pc = CASE r.status = "Halted" -> pc
                              [] r.status = "Failed" -> "Error"
                              [] OTHER -> "Panicked"]

\* println!(.., run_program_with_inputs(&program, 12, 2)?[0])
Part1 ==
    /\ harness.pc = "Part1"
    /\ \E wraps \in BOOLEAN :
          Returned(run_program_with_inputs(image, 12, 2, wraps), "Search")
    /\ UNCHANGED <<relative_base, input, output, prev, steps, image, given>>
    /\ UNCHANGED <<amps, chan, sent, cur, last, ds_vars>>

\* one iteration of the for loop
TryPair ==
    /\ harness.pc = "Search"
    /\ harness.next < NumPairs
    /\ \E wraps \in BOOLEAN :
          LET noun == permutations2(harness.next)[1]
              verb == permutations2(harness.next)[2]
              r == run_program_with_inputs(image, noun, verb, wraps)
          IN  /\ program' = r.program
              /\ instruction_pointer' = r.instruction_pointer
              /\ status' = r.status
              /\ err' = r.err
              /\ harness' =
                    [harness EXCEPT
                       !.noun = noun,
                       !.verb = verb,
                       !.next = @ + 1,
                       !.pc = CASE r.status = "Failed" -> "Error"
                                [] r.status # "Halted" -> "Panicked"
                                [] Cell(r.program, 0)
                                     = harness.required_value -> "Found"
                                [] OTHER -> "Search"]
    /\ UNCHANGED <<relative_base, input, output, prev, steps, image, given>>
    /\ UNCHANGED <<amps, chan, sent, cur, last, ds_vars>>

\* bail!("Couldn't find a pair of inputs that produces {}", ..)
Bail ==
    /\ harness.pc = "Search"
    /\ harness.next = NumPairs
    /\ harness' = [harness EXCEPT !.pc = "NotFound"]
    /\ UNCHANGED <<vm_vars, amps, chan, sent, cur, last, ds_vars>>

SearchNext ==
    \/ Part1
    \/ TryPair
    \/ Bail

Search == SearchInit /\ [][SearchNext]_vars

\* the run of image with inputs (noun, verb) leaves v in cell 0
Produces(noun, verb, v) ==
    \E wraps \in BOOLEAN :
        LET r == run_program_with_inputs(image, noun, verb, wraps)
        IN  r.status = "Halted" /\ Cell(r.program, 0) = v

(***************************************************************************)
(* C37: the part-2 search tries every pair (noun, verb) of the range: it   *)
(* reports that no pair produces the required value only if no pair of     *)
(* the range does, and a pair it reports leaves the required value in      *)
(* cell 0.                                                                 *)
(***************************************************************************)
C37_SearchTriesEveryPair ==
    /\ harness.pc = "NotFound" =>
          \A noun \in 0..MaxNoun, verb \in 0..MaxNoun :
              ~Produces(noun, verb, harness.required_value)
    /\ harness.pc = "Found" =>
          Produces(harness.noun, harness.verb, harness.required_value)

====
